---- MODULE Spec2Model ----
(***************************************************************************)
(* Scraper plugin framework: the per-host token bucket rate limiter, the   *)
(* conditional-request HTTP client and the discover -> fetch -> parse ->   *)
(* normalize -> link -> upsert orchestrator.                               *)
(*                                                                         *)
(* Time is counted in ticks of 1/TicksPerSec second, tokens in 1/Milli of  *)
(* a token and rates in 1/Milli token per second, so that the float        *)
(* arithmetic of the token bucket is exact on the values used here.        *)
(* The code runs on one asyncio event loop: everything between two awaits  *)
(* is one atomic step.                                                     *)
(***************************************************************************)
EXTENDS Integers, Sequences, FiniteSets, TLC

VARIABLES
    \* TokenBucketRateLimiter and its callers
    now, buckets, locks, tasks, adminOps, burst,
    \* AsyncHTTPClient and its callers
    etag_cache, last_modified_cache, inflight, nextId, lastEtag,
    burls, bsize, bpc, bi, bstat, bresp, bresults,
    \* ScraperInterface.run
    rpc, dry_run, save_fixture, rurls, raw_contents, fi, fstep, ri, rstep, cur,
    results, trace, store, fixtures, routcome, fetch_status,
    \* canonical_url and its callers
    curl, cfirst, ccanon, cadded,
    \* discover and its caller
    dargs, dout,
    \* MinHashDeduplicator and its caller
    minhashes, clusters,
    \* AsyncHTTPClient.validate_link and its callers
    link_cache, lnow, heads, vcalls, head_raised,
    \* ScraperRegistry and the registry file
    regfile0, regfile, scrapers, regstate,
    \* is_near_duplicate and its caller
    dfp1, dfp2, dthreshold, near,
    \* extract_article_metadata and its caller
    page, article_metadata,
    \* link of the site scrapers and its caller
    normalized, linked,
    \* the constructor arguments of TokenBucketRateLimiter
    default_rate, default_capacity,
    \* the fetch loops of the scrapers: calls made, and the calls that returned True
    fetch_calls, granted

limiterVars == <<now, buckets, locks, tasks, adminOps, burst>>
httpVars == <<etag_cache, last_modified_cache, inflight, nextId, lastEtag,
              burls, bsize, bpc, bi, bstat, bresp, bresults>>
runVars == <<rpc, dry_run, save_fixture, rurls, raw_contents, fi, fstep, ri, rstep,
             cur, results, trace, store, fixtures, routcome, fetch_status>>
canonVars == <<curl, cfirst, ccanon, cadded>>
discoverVars == <<dargs, dout>>
clusterVars == <<minhashes, clusters>>
linkVars == <<link_cache, lnow, heads, vcalls, head_raised>>
registryVars == <<regfile0, regfile, scrapers, regstate>>
simhashVars == <<dfp1, dfp2, dthreshold, near>>
metadataVars == <<page, article_metadata>>
entityVars == <<normalized, linked>>
configVars == <<default_rate, default_capacity>>
fetchVars == <<fetch_calls, granted>>
vars == <<limiterVars, httpVars, runVars, canonVars, discoverVars, clusterVars, linkVars,
         registryVars,
         simhashVars,
         metadataVars,
         entityVars,
         configVars,
         fetchVars>>

----------------------------------------------------------------------------
(* Units and bounds *)

TicksPerSec == 10
Milli == 1000

MaxTime == 19
MaxBurstTime == 70
MaxAdminOps == 1
BurstCalls == 6
ArrivalGrid == 10

Hosts == {"a", "b"}
Tasks == {"t1", "t2"}

\* A URL is <<netloc, path>>.
LimiterUrls == {<<"a", "/1">>, <<"b", "/1">>}

\* max_wait = None
NoWait == 0 - 1

\* TokenBucketRateLimiter(default_rate = 1.0, default_capacity = 5)
DefaultRate == 1000
DefaultCapacity == 5

\* random.uniform(0.9, 1.1), in percent
JitterChoices == {90, 100, 110}

Min(x, y) == IF x <= y THEN x ELSE y

----------------------------------------------------------------------------
(* TokenBucketRateLimiter *)

GetHost(url) == url[1]

\* one lock shared by all hosts
LockOfShared(host) == "a"

\* self.locks[host]: one asyncio.Lock per host
LockOf(host) == host

\* the defaultdict factory of self.buckets
NewBucket(t) ==
    [tokens |-> default_capacity * Milli, capacity |-> default_capacity,
     rate |-> default_rate, last_refill |-> t]

\* self.buckets[host]: creates the bucket on first access
BucketOf(bs, host, t) == IF host \in DOMAIN bs THEN bs[host] ELSE NewBucket(t)

PutBucket(bs, host, b) ==
    [h \in (DOMAIN bs) \cup {host} |-> IF h = host THEN b ELSE bs[h]]

RefillBucketUnclamped(b, t) ==
    [b EXCEPT !.tokens = b.tokens + ((t - b.last_refill) * b.rate) \div TicksPerSec,
              !.last_refill = t]

RefillBucket(b, t) ==
    [b EXCEPT !.tokens = Min(b.capacity * Milli,
                             b.tokens + ((t - b.last_refill) * b.rate) \div TicksPerSec),
              !.last_refill = t]

\* asyncio.sleep(jitter * (1.0 / rate)), in ticks
JitterTicks(j, rate) == (j * TicksPerSec * Milli) \div (100 * rate)

\* asyncio.sleep(tokens / rate), in ticks
WaitTicks(req, rate) == (req * TicksPerSec * Milli) \div rate

IdleTask == [pc |-> "idle", url |-> <<"a", "/1">>, req |-> 1, max_wait |-> NoWait,
             call_time |-> 0, start_time |-> 0, wake_at |-> 0, result |-> "none"]

Holder(k) == IF locks[k] = <<>> THEN "nobody" ELSE Head(locks[k])

\* the enough-tokens test of the loop
Enough(b, req) == b.tokens >= req * Milli

\* the timeout test of the loop
TimedOut(max_wait, start, t) == max_wait # NoWait /\ t - start >= max_wait

\* One pass of the while loop of acquire, from the refill to the next await
\* or return, for task t whose call started holding the lock at `start`.
LoopPass(t, call, start) ==
    LET host == GetHost(call.url)
        b == RefillBucket(BucketOf(buckets, host, now), now)
    IN  IF Enough(b, call.req)
        THEN \E j \in JitterChoices :
               /\ buckets' = PutBucket(buckets, host,
                                       [b EXCEPT !.tokens = b.tokens - call.req * Milli])
               /\ tasks' = [tasks EXCEPT ![t] =
                              [call EXCEPT !.pc = "jitter", !.start_time = start,
                                           !.wake_at = now + JitterTicks(j, b.rate)]]
               /\ UNCHANGED locks
        ELSE IF TimedOut(call.max_wait, start, now)
        THEN /\ buckets' = PutBucket(buckets, host, b)
             /\ tasks' = [tasks EXCEPT ![t] = [IdleTask EXCEPT !.result = "false"]]
             /\ locks' = [locks EXCEPT ![LockOf(host)] = Tail(@)]
        ELSE /\ buckets' = PutBucket(buckets, host, b)
             /\ tasks' = [tasks EXCEPT ![t] =
                            [call EXCEPT !.pc = "wait", !.start_time = start,
                                         !.wake_at = now + WaitTicks(call.req, b.rate)]]
             /\ UNCHANGED locks

\* acquire(url, tokens, max_wait) up to its first await: the lock is taken at
\* once when it is free, and the caller queues behind the holder otherwise.
acquire(t, url, req, mw) ==
    /\ tasks[t].pc = "idle"
    /\ LET call == [IdleTask EXCEPT !.url = url, !.req = req, !.max_wait = mw,
                                    !.call_time = IF mw = NoWait THEN 0 ELSE now]
           k == LockOf(GetHost(url))
       IN  IF locks[k] = <<>>
           THEN \E j \in JitterChoices :
                  LET b == RefillBucket(BucketOf(buckets, GetHost(url), now), now)
                  IN  IF Enough(b, req)
                      THEN /\ buckets' = PutBucket(buckets, GetHost(url),
                                              [b EXCEPT !.tokens = b.tokens - req * Milli])
                           /\ tasks' = [tasks EXCEPT ![t] =
                                  [call EXCEPT !.pc = "jitter", !.start_time = now,
                                               !.wake_at = now + JitterTicks(j, b.rate)]]
                           /\ locks' = [locks EXCEPT ![k] = <<t>>]
                      ELSE IF TimedOut(mw, now, now)
                      THEN /\ buckets' = PutBucket(buckets, GetHost(url), b)
                           /\ tasks' = [tasks EXCEPT ![t] =
                                          [IdleTask EXCEPT !.result = "false"]]
                           /\ UNCHANGED locks
                      ELSE /\ buckets' = PutBucket(buckets, GetHost(url), b)
                           /\ tasks' = [tasks EXCEPT ![t] =
                                  [call EXCEPT !.pc = "wait", !.start_time = now,
                                               !.wake_at = now + WaitTicks(req, b.rate)]]
                           /\ locks' = [locks EXCEPT ![k] = <<t>>]
           ELSE /\ tasks' = [tasks EXCEPT ![t] = [call EXCEPT !.pc = "lock"]]
                /\ locks' = [locks EXCEPT ![k] = Append(@, t)]
                /\ UNCHANGED buckets
    /\ UNCHANGED <<now, adminOps>>

\* the lock is handed to the first waiter: start_time is taken now
LockGranted(t) ==
    /\ tasks[t].pc = "lock"
    /\ Holder(LockOf(GetHost(tasks[t].url))) = t
    /\ LoopPass(t, tasks[t], now)
    /\ UNCHANGED <<now, adminOps>>

\* asyncio.sleep(wait_time) is over: next pass of the loop
WakeWait(t) ==
    /\ tasks[t].pc = "wait"
    /\ now >= tasks[t].wake_at
    /\ LoopPass(t, tasks[t], tasks[t].start_time)
    /\ UNCHANGED <<now, adminOps>>

\* the jitter sleep is over: return True, leaving the async with block
WakeJitter(t) ==
    /\ tasks[t].pc = "jitter"
    /\ now >= tasks[t].wake_at
    /\ tasks' = [tasks EXCEPT ![t] = [IdleTask EXCEPT !.result = "true"]]
    /\ locks' = [locks EXCEPT ![LockOf(GetHost(tasks[t].url))] = Tail(@)]
    /\ UNCHANGED <<now, buckets, adminOps>>

\* int(rate * 10)
RateCapacity(rate) == (rate * 10) \div Milli

\* set_rate(host, rate, capacity): capacity = NoWait stands for None
set_rate(host, rate, capacity) ==
    /\ adminOps < MaxAdminOps
    /\ adminOps' = adminOps + 1
    /\ LET cap == IF capacity = NoWait THEN RateCapacity(rate) ELSE capacity
       IN  buckets' = PutBucket(buckets, host,
                        [BucketOf(buckets, host, now) EXCEPT
                            !.rate = rate, !.capacity = cap, !.tokens = cap * Milli])
    /\ UNCHANGED <<now, locks, tasks>>

ResetBucket(b, t) == [b EXCEPT !.tokens = b.capacity * Milli, !.last_refill = t]

\* reset(host)
reset(host) ==
    /\ adminOps < MaxAdminOps
    /\ adminOps' = adminOps + 1
    /\ buckets' = IF host \in DOMAIN buckets
                  THEN [buckets EXCEPT ![host] = ResetBucket(@, now)]
                  ELSE buckets
    /\ UNCHANGED <<now, locks, tasks>>

\* reset(None)
reset_all ==
    /\ adminOps < MaxAdminOps
    /\ adminOps' = adminOps + 1
    /\ buckets' = [h \in DOMAIN buckets |-> ResetBucket(buckets[h], now)]
    /\ UNCHANGED <<now, locks, tasks>>

\* A task whose sleep is over, or to which the lock was handed, runs before
\* the clock moves on.
Runnable(t) ==
    \/ tasks[t].pc \in {"wait", "jitter"} /\ now >= tasks[t].wake_at
    \/ tasks[t].pc = "lock" /\ Holder(LockOf(GetHost(tasks[t].url))) = t

\* Callers arrive on a grid of ArrivalGrid ticks, or at the instant another
\* task's sleep ends; the clock moves from one such instant to the next.
NextInstant ==
    LET wakes == {tasks[t].wake_at : t \in {u \in Tasks : tasks[u].pc \in {"wait", "jitter"}}}
        cand == wakes \cup {((now \div ArrivalGrid) + 1) * ArrivalGrid}
    IN  CHOOSE x \in cand : \A y \in cand : x <= y

Tick(limit) ==
    /\ \A t \in Tasks : ~Runnable(t)
    /\ NextInstant <= limit
    /\ now' = NextInstant
    /\ UNCHANGED <<buckets, locks, tasks, adminOps>>

SetRateChoices == {<<500, NoWait>>, <<1000, 1>>}
ReqChoices == {1}
MaxWaitChoices == {NoWait, 5}

InitLimiter ==
    /\ now = 0
    /\ buckets = <<>>
    /\ locks = [k \in Hosts |-> <<>>]
    /\ tasks = [t \in Tasks |-> IdleTask]
    /\ adminOps = 0

\* TokenBucketRateLimiter(default_rate = 1.0, default_capacity = 5)
InitConfig ==
    /\ default_rate = DefaultRate
    /\ default_capacity = DefaultCapacity

----------------------------------------------------------------------------
(* The burst scenario: one caller awaits acquire(url) BurstCalls times in a *)
(* row on a host whose bucket is full (capacity 5, rate 1 token/s).  burst  *)
(* records when each call was made and when it returned.  The bucket never  *)
(* runs dry here (each call sleeps at least 0.9 s, which refills 0.9 token), *)
(* so the caller is never found waiting for a refill.                       *)

BurstUrl == <<"a", "/1">>

BurstCall ==
    /\ Len(burst) < BurstCalls
    /\ acquire("t1", BurstUrl, 1, NoWait)
    /\ burst' = Append(burst, [call |-> now, ret |-> NoWait, ok |-> FALSE])

BurstReturn ==
    /\ WakeJitter("t1")
    /\ burst' = [burst EXCEPT ![Len(burst)] = [@ EXCEPT !.ret = now, !.ok = TRUE]]

BurstTick ==
    /\ tasks["t1"].pc # "idle"
    /\ Tick(MaxBurstTime)
    /\ UNCHANGED burst

----------------------------------------------------------------------------
(* The fetch loops of the site scrapers: each scraper builds its limiter    *)
(* from max_rps and awaits acquire(url) before every get.  Tasks are the    *)
(* fetch loops running on one limiter; granted records the host and the     *)
(* time of every call that returned True.                                   *)

MaxFetches == 2

\* config.get('max_rps', 0.5), in 1/Milli per second
MaxRpsChoices == {50, 100, 500}

\* TokenBucketRateLimiter(default_rate=max_rps, default_capacity=int(max_rps * 10))
InitScraperLimiter ==
    \E max_rps \in MaxRpsChoices :
        /\ default_rate = max_rps
        /\ default_capacity = RateCapacity(max_rps)

IdleFetch ==
    /\ fetch_calls = [t \in Tasks |-> 0]
    /\ granted = <<>>

\* await self.rate_limiter.acquire(url), for the next URL of the list
FetchCall(t, url) ==
    /\ fetch_calls[t] < MaxFetches
    /\ acquire(t, url, 1, NoWait)
    /\ fetch_calls' = [fetch_calls EXCEPT ![t] = @ + 1]
    /\ UNCHANGED granted

\* acquire returns True
FetchGranted(t) ==
    /\ WakeJitter(t)
    /\ granted' = Append(granted, [host |-> GetHost(tasks[t].url), at |-> now])
    /\ UNCHANGED fetch_calls

\* The event loop sleeps until the first of the pending wake-up times.  The
\* code reads the clock only to take differences, so the fetch loops count
\* time from the current instant: now stays where it is and every recorded
\* time moves back by the time slept (start_time is read only when max_wait
\* is given, which fetch never does).
FetchTick ==
    LET sleeping == {t \in Tasks : tasks[t].pc \in {"wait", "jitter"}}
        wakes == {tasks[t].wake_at : t \in sleeping}
    IN  /\ \A t \in Tasks : ~Runnable(t)
        /\ sleeping # {}
        /\ \E w \in wakes :
              /\ \A x \in wakes : w <= x
              /\ buckets' = [h \in DOMAIN buckets |->
                               [buckets[h] EXCEPT !.last_refill = @ - (w - now)]]
              /\ tasks' = [t \in Tasks |->
                             IF t \in sleeping
                             THEN [tasks[t] EXCEPT !.wake_at = @ - (w - now)]
                             ELSE tasks[t]]
              /\ granted' = [k \in 1..Len(granted) |->
                               [granted[k] EXCEPT !.at = @ - (w - now)]]
        /\ UNCHANGED <<now, locks, adminOps, fetch_calls>>

----------------------------------------------------------------------------
(* AsyncHTTPClient *)

MaxGets == 3
MaxUrls == 3
MaxBatchSize == 2

\* two URLs of one host
HttpUrls == {<<"a", "/1">>, <<"a", "/2">>}

Absent == "absent"
ETags == {"e1", "e2"}
LastMods == {"m1"}
Statuses == {200, 304, 404}

\* what the server answers: status and the two validators it may carry
Responses == [status : Statuses, etag : ETags \cup {Absent},
              last_modified : LastMods \cup {Absent}]

\* the answers drawn for the gets of batch_get
BatchResponses ==
    {r \in Responses : r.status # 304 /\ r.etag # "e2" /\ r.last_modified = Absent}

\* the headers argument of get: None, or the caller's own If-None-Match
NoHeaders == [inm |-> Absent, ims |-> Absent]
HeaderChoices == {NoHeaders, [inm |-> "custom", ims |-> Absent]}

\* request_headers.update(headers)
UpdateHeaders(base, extra) ==
    [inm |-> IF extra.inm # Absent THEN extra.inm ELSE base.inm,
     ims |-> IF extra.ims # Absent THEN extra.ims ELSE base.ims]

\* the caches keyed by host instead of URL
CacheKeyHost(url) == <<url[1], "/1">>

\* the key of the conditional-request caches
CacheKey(url) == url

\* lines 79-90 of get: the conditional headers, then the caller's headers
RequestHeaders(url, use_cache, headers) ==
    UpdateHeaders(
        [inm |-> IF use_cache THEN etag_cache[CacheKey(url)] ELSE Absent,
         ims |-> IF use_cache THEN last_modified_cache[CacheKey(url)] ELSE Absent],
        headers)

\* if "etag" in response.headers: self.etag_cache[url] = ...
CacheETag(cache, url, resp) ==
    IF resp.etag # Absent THEN [cache EXCEPT ![CacheKey(url)] = resp.etag] ELSE cache

\* if "last-modified" in response.headers: self.last_modified_cache[url] = ...
CacheLastModified(cache, url, resp) ==
    IF resp.last_modified # Absent
    THEN [cache EXCEPT ![CacheKey(url)] = resp.last_modified] ELSE cache

\* the dict get returns
ResponseDict(url, resp) ==
    [url |-> url, status |-> resp.status, etag |-> resp.etag,
     last_modified |-> resp.last_modified]

\* get up to `await self.client.get(url, headers = request_headers)`
get_send(id, url, use_cache, headers) ==
    /\ \A r \in inflight : r.id # id
    /\ inflight' = inflight \cup
          {[id |-> id, url |-> url, use_cache |-> use_cache, headers |-> headers,
            sent |-> RequestHeaders(url, use_cache, headers)]}
    /\ UNCHANGED <<etag_cache, last_modified_cache, lastEtag>>

\* the response arrives: the validators are cached and the dict returned
get_response(r, resp) ==
    /\ r \in inflight
    /\ etag_cache' = CacheETag(etag_cache, r.url, resp)
    /\ last_modified_cache' = CacheLastModified(last_modified_cache, r.url, resp)
    /\ lastEtag' = IF resp.etag # Absent THEN [lastEtag EXCEPT ![r.url] = resp.etag]
                   ELSE lastEtag
    /\ inflight' = inflight \ {r}

\* self.client.get raises (network error, timeout): nothing is cached
get_raise(r) ==
    /\ r \in inflight
    /\ inflight' = inflight \ {r}
    /\ UNCHANGED <<etag_cache, last_modified_cache, lastEtag>>

InitHttp ==
    /\ etag_cache = [u \in HttpUrls |-> Absent]
    /\ last_modified_cache = [u \in HttpUrls |-> Absent]
    /\ lastEtag = [u \in HttpUrls |-> Absent]
    /\ inflight = {}
    /\ nextId = 1

batchVars == <<burls, bsize, bpc, bi, bstat, bresp, bresults>>

\* callers of get, MaxGets calls in all
Get ==
    /\ nextId <= MaxGets
    /\ \E u \in HttpUrls, c \in BOOLEAN, h \in HeaderChoices : get_send(nextId, u, c, h)
    /\ nextId' = nextId + 1
    /\ UNCHANGED batchVars

GetResponse ==
    /\ \E r \in inflight, resp \in Responses : get_response(r, resp)
    /\ UNCHANGED <<nextId, batchVars>>

GetRaise ==
    /\ \E r \in inflight : get_raise(r)
    /\ UNCHANGED <<nextId, batchVars>>

----------------------------------------------------------------------------
(* AsyncHTTPClient.validate_link and head.  Time is counted in days.        *)

MaxDays == 7
MaxHeads == 2

\* self.link_cache_ttl = timedelta(days=7)
link_cache_ttl == 7

LinkUrls == {<<"a", "/1">>, <<"a", "/2">>}
Callers == {"c1", "c2"}

\* what a HEAD request comes back with: a status code, or an exception
HeadFailed == 0
HeadOutcomes == {HeadFailed, 200, 404}

\* "valid": 200 <= response.status_code < 400
HeadValid(status) == 200 <= status /\ status < 400

\* an exception of the HEAD request counted as a valid link
HeadResultOptimistic(outcome) == outcome = HeadFailed \/ HeadValid(outcome)

\* the try block around head: valid = result["valid"], or False on an
\* exception
HeadResult(outcome) == IF outcome = HeadFailed THEN FALSE ELSE HeadValid(outcome)

\* an entry as old as the ttl still counts as fresh
FreshInclusive(cached_at, t) == t - cached_at <= link_cache_ttl

\* datetime.utcnow() - cached_at < self.link_cache_ttl
Fresh(cached_at, t) == t - cached_at < link_cache_ttl

IdleCaller == [pc |-> "idle", url |-> <<"a", "/1">>, use_cache |-> TRUE, result |-> FALSE]

InitLink ==
    /\ link_cache = <<>>
    /\ lnow = 0
    /\ heads = 0
    /\ vcalls = [c \in Callers |-> IdleCaller]
    /\ head_raised = FALSE

\* validate_link(url, use_cache) up to its first await: the cached value is
\* returned, or the HEAD request goes out
validate_link(c, url, use_cache) ==
    /\ vcalls[c].pc # "head"
    /\ IF use_cache /\ url \in DOMAIN link_cache /\ Fresh(link_cache[url].cached_at, lnow)
       THEN /\ vcalls' = [vcalls EXCEPT ![c] = [pc |-> "returned", url |-> url,
                              use_cache |-> use_cache, result |-> link_cache[url].valid]]
            /\ UNCHANGED heads
       ELSE /\ heads < MaxHeads
            /\ vcalls' = [vcalls EXCEPT ![c] = [pc |-> "head", url |-> url,
                              use_cache |-> use_cache, result |-> FALSE]]
            /\ heads' = heads + 1
    /\ UNCHANGED <<link_cache, lnow, head_raised>>

\* the HEAD request of caller c is over: the result is cached with the
\* current time and returned; head_raised tells whether the latest
\* request to come back raised
HeadDone(c, outcome) ==
    /\ vcalls[c].pc = "head"
    /\ head_raised' = (outcome = HeadFailed)
    /\ LET valid == HeadResult(outcome)
       IN  /\ link_cache' = (vcalls[c].url :> [valid |-> valid, cached_at |-> lnow])
                            @@ link_cache
           /\ vcalls' = [vcalls EXCEPT ![c].pc = "returned", ![c].result = valid]
    /\ UNCHANGED <<lnow, heads>>

\* a day passes
LinkTick ==
    /\ lnow < MaxDays
    /\ lnow' = lnow + 1
    /\ UNCHANGED <<link_cache, heads, vcalls, head_raised>>

----------------------------------------------------------------------------
(* batch_get(urls, batch_size, delay) *)

\* urls[i:i + batch_size], as indices of urls (1-based, i counted from 0)
BatchIndices(i, size, n) == {k \in 1..n : i < k /\ k <= i + size}

Settled == {"ok", "exc"}

\* returning as soon as one get has settled
GatherDoneFirst(idx, stat) == \E k \in idx : stat[k] \in Settled

\* asyncio.gather over the batch, with return_exceptions = True, is done
GatherDone(idx, stat) == \A k \in idx : stat[k] \in Settled

\* the for loop over batch_results: exceptions are filtered out
RECURSIVE CollectAll(_, _, _, _)
CollectAll(k, last, stat, resp) ==
    IF k > last THEN <<>> ELSE <<resp[k]>> \o CollectAll(k + 1, last, stat, resp)

RECURSIVE Collect(_, _, _, _)
Collect(k, last, stat, resp) ==
    IF k > last THEN <<>>
    ELSE (IF stat[k] = "ok" THEN <<resp[k]>> ELSE <<>>) \o Collect(k + 1, last, stat, resp)

RECURSIVE SeqsUpTo(_, _)
SeqsUpTo(S, n) ==
    IF n = 0 THEN {<<>>}
    ELSE LET shorter == SeqsUpTo(S, n - 1)
         IN  shorter \cup {Append(q, x) : q \in shorter, x \in S}

NoResponse == [url |-> <<"a", "/1">>, status |-> 0, etag |-> Absent,
               last_modified |-> Absent]

InitBatch ==
    /\ burls \in SeqsUpTo(HttpUrls, MaxUrls)
    /\ bsize \in 1..MaxBatchSize
    /\ bpc = "idle"
    /\ bi = 0
    /\ bstat = [k \in 1..Len(burls) |-> "new"]
    /\ bresp = [k \in 1..Len(burls) |-> NoResponse]
    /\ bresults = <<>>

\* batch_get is called: the first batch's gets are handed to gather
batch_get ==
    /\ bpc = "idle"
    /\ bi' = 0
    /\ bresults' = <<>>
    /\ IF Len(burls) = 0
       THEN bpc' = "done" /\ UNCHANGED bstat
       ELSE /\ bpc' = "gather"
            /\ bstat' = [k \in 1..Len(burls) |->
                           IF k \in BatchIndices(0, bsize, Len(burls))
                           THEN "scheduled" ELSE bstat[k]]
    /\ UNCHANGED <<burls, bsize, bresp, etag_cache, last_modified_cache, inflight,
                   nextId, lastEtag>>

\* a gathered get starts running: self.get(url)
BatchGetStart ==
    /\ \E k \in 1..Len(burls) :
          /\ bstat[k] = "scheduled"
          /\ get_send(MaxGets + k, burls[k], TRUE, NoHeaders)
          /\ bstat' = [bstat EXCEPT ![k] = "inflight"]
    /\ UNCHANGED <<nextId, burls, bsize, bpc, bi, bresp, bresults>>

BatchGetResponse ==
    /\ \E k \in 1..Len(burls), r \in inflight, resp \in BatchResponses :
          /\ bstat[k] = "inflight"
          /\ r.id = MaxGets + k
          /\ get_response(r, resp)
          /\ bstat' = [bstat EXCEPT ![k] = "ok"]
          /\ bresp' = [bresp EXCEPT ![k] = ResponseDict(r.url, resp)]
    /\ UNCHANGED <<nextId, burls, bsize, bpc, bi, bresults>>

BatchGetRaise ==
    /\ \E k \in 1..Len(burls), r \in inflight :
          /\ bstat[k] = "inflight"
          /\ r.id = MaxGets + k
          /\ get_raise(r)
          /\ bstat' = [bstat EXCEPT ![k] = "exc"]
    /\ UNCHANGED <<nextId, burls, bsize, bpc, bi, bresp, bresults>>

\* gather returns: the batch's results are appended, then either the delay
\* before the next batch or the return
BatchCollect ==
    /\ bpc = "gather"
    /\ GatherDone(BatchIndices(bi, bsize, Len(burls)), bstat)
    /\ bresults' = bresults \o Collect(bi + 1, Min(bi + bsize, Len(burls)), bstat, bresp)
    /\ bpc' = IF bi + bsize < Len(burls) THEN "delay" ELSE "done"
    /\ UNCHANGED <<burls, bsize, bi, bstat, bresp, etag_cache, last_modified_cache,
                   inflight, nextId, lastEtag>>

\* asyncio.sleep(delay) is over: the next batch is handed to gather
BatchNext ==
    /\ bpc = "delay"
    /\ bi' = bi + bsize
    /\ bpc' = "gather"
    /\ bstat' = [k \in 1..Len(burls) |->
                   IF k \in BatchIndices(bi + bsize, bsize, Len(burls))
                   THEN "scheduled" ELSE bstat[k]]
    /\ UNCHANGED <<burls, bsize, bresp, bresults, etag_cache, last_modified_cache,
                   inflight, nextId, lastEtag>>

----------------------------------------------------------------------------
(* Deduplicator: canonical_url.  A URL is the tuple urlparse splits it      *)
(* into: scheme, netloc, path (a list of "/" and segment tokens), the query *)
(* (a list of name = value pairs, in the order written) and the fragment.   *)

MaxParams == 2

\* str.lower() on the words used here
Lower(w) ==
    CASE w = "HTTPS" -> "https"
      [] w = "X.com" -> "x.com"
      [] w = "A" -> "a"
      [] w = "Top" -> "top"
      [] OTHER -> w

LowerSeq(s) == [k \in 1..Len(s) |-> Lower(s[k])]

LowerQuery(q) == [k \in 1..Len(q) |-> <<Lower(q[k][1]), Lower(q[k][2])>>]

\* the literal set of names removed from the query
tracking_params ==
    {"utm_source", "utm_medium", "utm_campaign", "utm_term", "utm_content",
     "fbclid", "gclid", "msclkid", "_ga", "mc_cid", "mc_eid"}

\* the parameter names used here, in the order sorted() puts them
ParamOrder == <<"fbclid", "id", "utm_id", "utm_source">>

\* parse_qs: the pairs with a non-blank value (the dict groups them by name,
\* each name keeping its values in the order written)
ParseQs(q) == SelectSeq(q, LAMBDA p : p[2] # "")

\* urlencode(sorted(filtered_params.items()), doseq=True): the names in
\* sorted order from position i on, each followed by its values
RECURSIVE SortedQuery(_, _)
SortedQuery(q, i) ==
    IF i > Len(ParamOrder) THEN <<>>
    ELSE (IF ParamOrder[i] \in tracking_params THEN <<>>
          ELSE SelectSeq(q, LAMBDA p : p[1] = ParamOrder[i]))
         \o SortedQuery(q, i + 1)

\* parsed.path.rstrip('/')
RECURSIVE RStripSlash(_)
RStripSlash(p) ==
    IF p # <<>> /\ p[Len(p)] = "/" THEN RStripSlash(SubSeq(p, 1, Len(p) - 1)) ELSE p

canonical_url(url) ==
    [scheme |-> Lower(url.scheme),
     netloc |-> Lower(url.netloc),
     path |-> RStripSlash(LowerSeq(url.path)),
     query |-> SortedQuery(ParseQs(LowerQuery(url.query)), 1),
     fragment |-> ""]

Url(scheme, netloc, path, query, fragment) ==
    [scheme |-> scheme, netloc |-> netloc, path |-> path, query |-> query,
     fragment |-> fragment]

\* the URLs canonical_url is first applied to
CanonPaths == {<<"/", "a">>, <<"/", "A">>, <<"/", "a", "/">>}
CanonQueries == {<<>>, <<<<"id", "1">>>>, <<<<"id", "1">>, <<"id", "2">>>>}
CanonUrls ==
    {Url(s, "x.com", p, q, f) :
        s \in {"https", "HTTPS"}, p \in CanonPaths, q \in CanonQueries, f \in {"", "Top"}}

\* the parameters a link collects on its way through newsletters and ads
AddedParams ==
    {<<"utm_source", "1">>, <<"utm_id", "1">>, <<"fbclid", "2">>}

InsertAt(s, k, x) == SubSeq(s, 1, k - 1) \o <<x>> \o SubSeq(s, k, Len(s))

Swap(s, j, k) == [s EXCEPT ![j] = s[k], ![k] = s[j]]

InitCanon ==
    /\ curl \in CanonUrls
    /\ cfirst = canonical_url(curl)
    /\ ccanon = cfirst
    /\ cadded = 0

\* canonical_url applied to the same link with one more tracking parameter
\* at position k of its query
CanonTracked(p, k) ==
    /\ cadded < MaxParams
    /\ k \in 1..Len(curl.query) + 1
    /\ curl' = [curl EXCEPT !.query = InsertAt(curl.query, k, p)]
    /\ ccanon' = canonical_url(curl')
    /\ cadded' = cadded + 1
    /\ UNCHANGED cfirst

\* canonical_url applied to the same link with two of its query parameters
\* exchanged
CanonReordered(j, k) ==
    /\ j < k /\ k <= Len(curl.query)
    /\ curl.query[j] # curl.query[k]
    /\ curl' = [curl EXCEPT !.query = Swap(curl.query, j, k)]
    /\ ccanon' = canonical_url(curl')
    /\ UNCHANGED <<cfirst, cadded>>

----------------------------------------------------------------------------
(* Deduplicator: MinHashDeduplicator.  A text is the set of its words (here *)
(* numbers); the LSH index is taken at its nominal behaviour: it matches    *)
(* two documents when the Jaccard similarity of their word sets reaches the *)
(* threshold.                                                               *)

MaxDocs == 3

\* threshold = 0.8, in tenths
ThresholdTenths == 8

DocIds == 1..MaxDocs

\* three press releases, the first and third both close to the second but
\* not to each other (Jaccard 9/11, 9/11 and 8/12), and an unrelated text
Texts == {1..10, (1..9) \cup {11}, (1..8) \cup {11, 12}, 21..30}

\* the index matches two word sets
Matches(a, b) ==
    Cardinality(a \cap b) * 10 >= ThresholdTenths * Cardinality(a \cup b)

IndexedIds(mh) == {mh[k].id : k \in 1..Len(mh)}

PositionOf(mh, id) == (CHOOSE k \in 1..Len(mh) : mh[k].id = id)

\* query_by_id(doc_id): self.lsh.query(minhash)
query_by_id(mh, id) ==
    IF id \notin IndexedIds(mh) THEN {}
    ELSE {mh[k].id : k \in {j \in 1..Len(mh) : Matches(mh[j].text, mh[PositionOf(mh, id)].text)}}

\* the loop of get_clusters over self.minhashes from position i on
RECURSIVE ClusterLoop(_, _, _, _)
ClusterLoop(mh, i, seen, found) ==
    IF i > Len(mh) THEN found
    ELSE IF mh[i].id \in seen THEN ClusterLoop(mh, i + 1, seen, found)
    ELSE LET cluster == query_by_id(mh, mh[i].id)
         IN  IF cluster # {}
             THEN ClusterLoop(mh, i + 1, seen \cup cluster, Append(found, cluster))
             ELSE ClusterLoop(mh, i + 1, seen, found)

get_clusters(mh) == ClusterLoop(mh, 1, {}, <<>>)

InitClusters ==
    /\ minhashes = <<>>
    /\ clusters = <<>>

\* add(doc_id, text) with a new doc_id
add(id, text) ==
    /\ id \notin IndexedIds(minhashes)
    /\ minhashes' = Append(minhashes, [id |-> id, text |-> text])
    /\ UNCHANGED clusters

\* clusters = dedup.get_clusters()
GetClusters ==
    /\ clusters' = get_clusters(minhashes)
    /\ UNCHANGED minhashes

----------------------------------------------------------------------------
(* ScraperRegistry: the registry file, and the registry built from it *)

MaxSources == 2

\* the categories of default_registry in the order yaml.dump writes them to
\* the file: it sorts the keys of a mapping
CategoryOrder == <<"company_sites", "exchanges", "news_press", "registries", "regulators">>

\* entries of the 'scrapers' lists; "unset" is a key the entry does not have
ScraperData ==
    [source_key : {"fierce_biotech", "fda"},
     name : {"n1"},
     base_url : {"https://b1"},
     enabled : {"unset", "false"}]

\* the file is not there; the 'scrapers' mapping of a file is the sequence
\* of its categories in the order of the document, which yaml.safe_load
\* keeps and .items() walks
Absent_File == [present |-> FALSE, scrapers |-> <<>>]

\* default_registry, as yaml.dump writes it
DefaultRegistry ==
    [present |-> TRUE,
     scrapers |-> [k \in 1..Len(CategoryOrder) |->
                      [category |-> CategoryOrder[k], entries |-> <<>>]]]

\* the two categories a file has, in the order in which it lists them
CategoryOrders ==
    {<<CategoryOrder[p[1]], CategoryOrder[p[2]]>> :
        p \in {q \in (1..Len(CategoryOrder)) \X (1..Len(CategoryOrder)) : q[1] # q[2]}}

\* the registry files found at construction: none, or sources under two
\* categories, listed in either order
RegistryFiles ==
    {Absent_File} \cup
    {[present |-> TRUE,
      scrapers |-> <<[category |-> o[1], entries |-> a],
                     [category |-> o[2], entries |-> b]>>] :
        a \in SeqsUpTo(ScraperData, MaxSources), b \in SeqsUpTo(ScraperData, MaxSources),
        o \in CategoryOrders}

\* every source ends up under the first category
ScraperConfigOneCategory(category, d) ==
    [source_key |-> d.source_key, name |-> d.name, category |-> CategoryOrder[1],
     base_url |-> d.base_url, enabled |-> (d.enabled = "unset")]

\* ScraperConfig(source_key=..., category=category, ...,
\*               enabled=scraper_data.get('enabled', True))
ScraperConfig(category, d) ==
    [source_key |-> d.source_key, name |-> d.name, category |-> category,
     base_url |-> d.base_url, enabled |-> (d.enabled = "unset")]

\* self.scrapers[config.source_key] = config, the dict keeping the order in
\* which its keys were first set
SetScraper(scr, cfg) ==
    IF \E k \in 1..Len(scr) : scr[k].source_key = cfg.source_key
    THEN [k \in 1..Len(scr) |->
             IF scr[k].source_key = cfg.source_key THEN cfg ELSE scr[k]]
    ELSE Append(scr, cfg)

\* the two loops of _load_registry from entry j of the i-th category of
\* the document on: for category, scrapers in data['scrapers'].items()
RECURSIVE LoadLoop(_, _, _, _)
LoadLoop(data, i, j, scr) ==
    IF i > Len(data) THEN scr
    ELSE IF j > Len(data[i].entries)
         THEN LoadLoop(data, i + 1, 1, scr)
         ELSE LoadLoop(data, i, j + 1,
                       SetScraper(scr, ScraperConfig(data[i].category,
                                                     data[i].entries[j])))

\* the default registry is not written
create_default_unwritten(file) == file

\* _create_default_registry: mkdir, yaml.dump(default_registry, f)
create_default_registry(file) == DefaultRegistry

get_scraper(scr, key) == {scr[k] : k \in {j \in 1..Len(scr) : scr[j].source_key = key}}
get_by_category(scr, category) == SelectSeq(scr, LAMBDA c : c.category = category)
get_enabled(scr) == SelectSeq(scr, LAMBDA c : c.enabled)
list_sources(scr) == [k \in 1..Len(scr) |-> scr[k].source_key]

InitRegistry ==
    /\ regfile0 \in RegistryFiles
    /\ regfile = regfile0
    /\ scrapers = <<>>
    /\ regstate = "new"

IdleRegistry ==
    /\ regfile0 = DefaultRegistry
    /\ regfile = regfile0
    /\ scrapers = <<>>
    /\ regstate = "new"

\* ScraperRegistry(registry_path): __init__ and _load_registry
NewRegistry ==
    /\ regstate = "new"
    /\ regfile' = IF regfile.present THEN regfile ELSE create_default_registry(regfile)
    /\ IF regfile'.present
       THEN regstate' = "loaded" /\ scrapers' = LoadLoop(regfile'.scrapers, 1, 1, <<>>)
       ELSE regstate' = "raised" /\ UNCHANGED scrapers
    /\ UNCHANGED regfile0

----------------------------------------------------------------------------
(* discover of the site scrapers (FierceScraper, PressReleaseScraper) *)

MaxFeed == 2

\* one article, the same article as linked from a newsletter, another one
ArticleA == Url("https", "x.com", <<"/", "a">>, <<>>, "")
ArticleATracked == Url("https", "x.com", <<"/", "a">>, <<<<"utm_source", "1">>>>, "")
ArticleAUtmId == Url("https", "x.com", <<"/", "a">>, <<<<"utm_id", "1">>>>, "")
ArticleB == Url("https", "x.com", <<"/", "b">>, <<>>, "")

\* entry.get('link', '') of an entry without link
NoLink == Url("", "", <<>>, <<>>, "")

\* None for since, for limit, and an entry without published_parsed
NoSince == 0 - 1
NoLimit == 0 - 1
NoDate == 0 - 1

\* the urls argument: None, or a list
NoUrls == [given |-> FALSE, list |-> <<>>]
UrlList(l) == [given |-> TRUE, list |-> l]

\* bool(urls)
Truthy(urls) == urls.given /\ urls.list # <<>>

FeedEntries ==
    {[link |-> ArticleA, published |-> 1],
     [link |-> ArticleATracked, published |-> 3],
     [link |-> ArticleB, published |-> NoDate],
     [link |-> NoLink, published |-> 3]}

\* the entry is skipped by the date filter: `if since:` and the entry has a
\* date before since (an entry without date falls into the except clause)
TooOld(entry, since) ==
    since # NoSince /\ entry.published # NoDate /\ entry.published < since

\* `if limit and len(discovered_urls) >= limit`
LimitReached(found, limit) == limit # NoLimit /\ limit # 0 /\ Len(found) >= limit

\* the loop over feed.entries from entry i on, found being discovered_urls
RECURSIVE FeedLoop(_, _, _, _, _)
FeedLoop(feed, i, found, since, limit) ==
    IF i > Len(feed) THEN found
    ELSE IF TooOld(feed[i], since) THEN FeedLoop(feed, i + 1, found, since, limit)
    ELSE LET more == IF feed[i].link # NoLink
                     THEN Append(found, canonical_url(feed[i].link))
                     ELSE found
         IN  IF LimitReached(more, limit) THEN more
             ELSE FeedLoop(feed, i + 1, more, since, limit)

Returned(urls, queried) == [kind |-> "returned", urls |-> urls, queried |-> queried]
RaisedValueError == [kind |-> "raised", urls |-> <<>>, queried |-> FALSE]

\* discover(method, since, limit, urls) of scraper (fierce or press), feed
\* being what feedparser.parse(self.rss_url) yields and has_rss_url telling
\* whether the scraper is configured with an rss_url
discover(scraper, has_rss_url, method, since, limit, urls, feed) ==
    IF method = "url" /\ Truthy(urls) THEN Returned(urls.list, FALSE)
    ELSE IF scraper = "fierce" /\ method # "rss" THEN RaisedValueError
    ELSE IF scraper = "press" /\ ~has_rss_url THEN Returned(<<>>, FALSE)
    ELSE Returned(FeedLoop(feed, 1, <<>>, since, limit), TRUE)

\* the arguments and configurations discover is called with
DiscoverCalls ==
    [scraper : {"fierce", "press"},
     has_rss_url : BOOLEAN,
     method : {"rss", "url", "sitemap"},
     since : {NoSince, 2},
     limit : {NoLimit, 0, 1},
     urls : {NoUrls, UrlList(<<>>), UrlList(<<ArticleATracked>>),
             UrlList(<<ArticleB, ArticleA>>)},
     feed : SeqsUpTo(FeedEntries, MaxFeed)]

NoOutcome == [kind |-> "none", urls |-> <<>>, queried |-> FALSE]

InitDiscover ==
    /\ dargs \in {c \in DiscoverCalls : c.scraper = "fierce" => c.has_rss_url}
    /\ dout = NoOutcome

\* await scraper.discover(...)
DiscoverCall ==
    /\ dout = NoOutcome
    /\ dout' = discover(dargs.scraper, dargs.has_rss_url, dargs.method, dargs.since,
                        dargs.limit, dargs.urls, dargs.feed)
    /\ UNCHANGED dargs

----------------------------------------------------------------------------
(* ScraperInterface.run over a site scraper (discover, fetch, parse,        *)
(* normalize, link, _save_fixture, upsert)                                  *)

MaxRunUrls == 3

\* the URLs discover yields: two links to one article, and another article
RunUrls == {ArticleA, ArticleAUtmId, ArticleB}

\* the text extracted from each page, the query string making no difference
ContentOf(u) == IF u.path = <<"/", "b">> THEN "text2" ELSE "text1"

\* content_hash(content): SHA-256, one digest per text
ContentHash(text) == <<"sha256", text>>

\* lists of distinct URLs, as a feed yields them
RECURSIVE DistinctSeqs(_, _)
DistinctSeqs(S, n) ==
    IF n = 0 THEN {<<>>}
    ELSE LET shorter == DistinctSeqs(S, n - 1)
         IN  shorter \cup
             UNION {{Append(q, x) : x \in {y \in S : \A k \in 1..Len(q) : q[k] # y}} :
                    q \in shorter}

NoResult == [url |-> NoLink, hash |-> <<"sha256", "none">>, fixture_path |-> <<"none">>]

\* normalize(parsed): the ScraperResult
Normalize(url) ==
    [url |-> canonical_url(url), hash |-> ContentHash(ContentOf(url)),
     fixture_path |-> <<"none">>]

\* fixture_dir / f"{url_hash}.json"
FixtureFile(result) == <<"fixture", result.hash>>

\* the caller-supplied persistence, idempotent keyed by hash
Persist(db, result) == db \cup {result.hash}

\* upsert ignoring dry_run
UpsertAlways(db, result, dry) == Persist(db, result)

\* upsert(result, dry_run): no side effect on a dry run, the caller's
\* persistence otherwise
upsert(db, result, dry) == IF dry THEN db ELSE Persist(db, result)

\* the link step left out
NextStepNoLink(step, save) ==
    CASE step = "parse" -> "normalize"
      [] step = "normalize" -> IF save THEN "save" ELSE "upsert"
      [] step = "link" -> IF save THEN "save" ELSE "upsert"
      [] step = "save" -> "upsert"
      [] step = "upsert" -> "parse"

\* the order of the awaits in the body of the for loop
NextStep(step, save) ==
    CASE step = "parse" -> "normalize"
      [] step = "normalize" -> "link"
      [] step = "link" -> IF save THEN "save" ELSE "upsert"
      [] step = "save" -> "upsert"
      [] step = "upsert" -> "parse"

\* `break` in the except clause
AfterFailureBreak(i, n) == n + 1

\* `continue` in the except clause: on to the next raw_content
AfterFailure(i, n) == i + 1

Event(ev, item, ok) == [ev |-> ev, item |-> item, ok |-> ok]

InitRun ==
    /\ rpc = "idle"
    /\ dry_run = FALSE
    /\ save_fixture = FALSE
    /\ rurls = <<>>
    /\ raw_contents = <<>>
    /\ fi = 0
    /\ fstep = "acquire"
    /\ ri = 0
    /\ rstep = "parse"
    /\ cur = NoResult
    /\ results = <<>>
    /\ trace = <<>>
    /\ store = {}
    /\ fixtures = {}
    /\ routcome = "none"
    /\ fetch_status = <<>>

\* run(dry_run, save_fixture) is called
run(dry, save) ==
    /\ rpc = "idle"
    /\ rpc' = "discover"
    /\ dry_run' = dry
    /\ save_fixture' = save
    /\ UNCHANGED <<fetch_status, rurls, raw_contents, fi, fstep, ri, rstep, cur, results, trace,
                   store, fixtures, routcome>>

\* urls = await self.discover(...); if not urls: return []
Discover(urls) ==
    /\ rpc = "discover"
    /\ rurls' = urls
    /\ trace' = Append(trace, Event("discover", 0, TRUE))
    /\ IF urls = <<>>
       THEN rpc' = "done" /\ routcome' = "returned" /\ UNCHANGED <<fi, fstep>>
       ELSE rpc' = "fetch" /\ fi' = 1 /\ fstep' = "acquire" /\ UNCHANGED routcome
    /\ UNCHANGED <<fetch_status, dry_run, save_fixture, raw_contents, ri, rstep, cur, results,
                   store, fixtures>>

\* discover raises (unsupported method, unreachable transport): run raises
DiscoverRaise ==
    /\ rpc = "discover"
    /\ trace' = Append(trace, Event("discover", 0, FALSE))
    /\ rpc' = "done"
    /\ routcome' = "raised"
    /\ UNCHANGED <<fetch_status, dry_run, save_fixture, rurls, raw_contents, fi, fstep, ri, rstep,
                   cur, results, store, fixtures>>

\* fetch: await self.rate_limiter.acquire(url)
FetchAcquire ==
    /\ rpc = "fetch"
    /\ fstep = "acquire"
    /\ trace' = Append(trace, Event("acquire", fi, TRUE))
    /\ fstep' = "get"
    /\ UNCHANGED <<fetch_status, rpc, dry_run, save_fixture, rurls, raw_contents, fi, ri, rstep, cur,
                   results, store, fixtures, routcome>>

\* the outcome of one http_client.get: it raised (transport error), or it
\* returned a response with this status code (get does not look at the code)
Raised == 0
GetOutcomes == {Raised, 200, 404}

\* the failed URL is requested again
AfterFetchFailureRetry(i) == i

\* `continue` in the except clause of fetch: on to the next URL
AfterFetchFailure(i) == i + 1

\* fetch: response = await self.http_client.get(url), appended whatever its
\* status, or dropped when get raises; after the last URL fetch returns and
\* the loop over raw_contents begins
FetchGet(st) ==
    /\ rpc = "fetch"
    /\ fstep = "get"
    /\ trace' = Append(trace, Event("get", fi, st # Raised))
    /\ fetch_status' = Append(fetch_status, st)
    /\ raw_contents' = IF st # Raised THEN Append(raw_contents, rurls[fi])
                       ELSE raw_contents
    /\ fstep' = "acquire"
    /\ LET next == IF st # Raised THEN fi + 1 ELSE AfterFetchFailure(fi)
       IN  IF next <= Len(rurls)
           THEN fi' = next /\ UNCHANGED <<rpc, ri, rstep, routcome>>
           ELSE /\ fi' = fi
                /\ IF raw_contents' = <<>>
                   THEN rpc' = "done" /\ routcome' = "returned" /\ UNCHANGED <<ri, rstep>>
                   ELSE rpc' = "item" /\ ri' = 1 /\ rstep' = "parse" /\ UNCHANGED routcome
    /\ UNCHANGED <<dry_run, save_fixture, rurls, cur, results, store, fixtures>>

\* the for loop moves to raw_contents[next], or run returns results
Advance(next) ==
    /\ rstep' = "parse"
    /\ IF next <= Len(raw_contents)
       THEN ri' = next /\ UNCHANGED <<rpc, routcome>>
       ELSE ri' = ri /\ rpc' = "done" /\ routcome' = "returned"

\* one await of the loop body returns
ItemStepOk ==
    /\ rpc = "item"
    /\ trace' = Append(trace, Event(rstep, ri, TRUE))
    /\ cur' = CASE rstep = "normalize" -> Normalize(raw_contents[ri])
                [] rstep = "save" -> [cur EXCEPT !.fixture_path = FixtureFile(cur)]
                [] OTHER -> cur
    /\ fixtures' = IF rstep = "save" THEN fixtures \cup {FixtureFile(cur)} ELSE fixtures
    /\ store' = IF rstep = "upsert" THEN upsert(store, cur, dry_run) ELSE store
    /\ IF rstep = "upsert"
       THEN results' = Append(results, cur) /\ Advance(ri + 1)
       ELSE /\ rstep' = NextStep(rstep, save_fixture)
            /\ UNCHANGED <<results, rpc, ri, routcome>>
    /\ UNCHANGED <<fetch_status, dry_run, save_fixture, rurls, raw_contents, fi, fstep>>

\* one await of the loop body raises: except Exception, print, continue.
\* upsert can fail only when it reaches the caller's persistence.
ItemStepRaise ==
    /\ rpc = "item"
    /\ rstep = "upsert" => ~dry_run
    /\ trace' = Append(trace, Event(rstep, ri, FALSE))
    /\ Advance(AfterFailure(ri, Len(raw_contents)))
    /\ UNCHANGED <<fetch_status, dry_run, save_fixture, rurls, raw_contents, fi, fstep, cur, results,
                   store, fixtures>>

----------------------------------------------------------------------------
(* simhash_distance and is_near_duplicate                                  *)
(*                                                                         *)
(* A fingerprint is a hex string, here the sequence of its characters.     *)

MaxHexDigits == 2
MaxThreshold == 4

\* the value int() gives each hex character
HexVal == [c \in {"0", "1", "2", "3", "4", "5", "6", "7", "8", "9",
                  "a", "b", "c", "d", "e", "f"} |->
             CASE c = "0" -> 0 [] c = "1" -> 1 [] c = "2" -> 2 [] c = "3" -> 3
               [] c = "4" -> 4 [] c = "5" -> 5 [] c = "6" -> 6 [] c = "7" -> 7
               [] c = "8" -> 8 [] c = "9" -> 9 [] c = "a" -> 10 [] c = "b" -> 11
               [] c = "c" -> 12 [] c = "d" -> 13 [] c = "e" -> 14 [] c = "f" -> 15]

\* the characters the fingerprints compared here are written with
HexDigits == {"0", "1", "3", "8", "f"}

Fingerprints == UNION {[1..n -> HexDigits] : n \in 1..MaxHexDigits}

Thresholds == 0..MaxThreshold

\* int(fp, 16)
RECURSIVE IntOfHex(_)
IntOfHex(fp) ==
    IF fp = <<>> THEN 0
    ELSE 16 * IntOfHex(SubSeq(fp, 1, Len(fp) - 1)) + HexVal[fp[Len(fp)]]

\* val1 ^ val2
RECURSIVE Xor(_, _)
Xor(a, b) ==
    IF a = 0 /\ b = 0 THEN 0
    ELSE (((a % 2) + (b % 2)) % 2) + 2 * Xor(a \div 2, b \div 2)

\* bin(v).count('1')
RECURSIVE CountOnes(_)
CountOnes(v) == IF v = 0 THEN 0 ELSE (v % 2) + CountOnes(v \div 2)

simhash_distance(fp1, fp2) == CountOnes(Xor(IntOfHex(fp1), IntOfHex(fp2)))

is_near_duplicate_strict(fp1, fp2, threshold) ==
    simhash_distance(fp1, fp2) < threshold

is_near_duplicate(fp1, fp2, threshold) ==
    simhash_distance(fp1, fp2) <= threshold

NoVerdict == [called |-> FALSE]

IdleSimhash ==
    /\ dfp1 = <<"0">>
    /\ dfp2 = <<"0">>
    /\ dthreshold = 3
    /\ near = NoVerdict

\* the fingerprints and the threshold of one pairwise check
InitSimhash ==
    /\ dfp1 \in Fingerprints
    /\ dfp2 \in Fingerprints
    /\ dthreshold \in Thresholds
    /\ near = NoVerdict

\* a pairwise check of two fingerprints, asked both ways round, and of the
\* first fingerprint against itself
NearDuplicateCheck ==
    /\ ~near.called
    /\ near' = [called |-> TRUE,
                distance |-> simhash_distance(dfp1, dfp2),
                forward |-> is_near_duplicate(dfp1, dfp2, dthreshold),
                backward |-> is_near_duplicate(dfp2, dfp1, dthreshold),
                self |-> is_near_duplicate(dfp1, dfp1, dthreshold)]
    /\ UNCHANGED <<dfp1, dfp2, dthreshold>>

----------------------------------------------------------------------------
(* extract_article_metadata.  A page is what its four kinds of markup hold: *)
(* the ld+json scripts, the og: meta tags, the itemscope elements and the   *)
(* title and meta tags.  A dict is a function from its keys.                *)

MaxScripts == 2
MaxTags == 1

\* a key the JSON object does not have, a tag the page does not have
Missing == "<missing>"

\* d.get(key, default) on a JSON object read into a record
JsonGet(v, default) == IF v = Missing THEN default ELSE v

\* d.get(key, default) on a dict
DictGet(d, key, default) == IF key \in DOMAIN d THEN d[key] ELSE default

\* d[key] = value
DictPut(d, key, value) ==
    [k \in (DOMAIN d) \cup {key} |-> IF k = key THEN value ELSE d[k]]

EmptyDict == [k \in {} |-> ""]

\* `not metadata`
IsEmpty(d) == DOMAIN d = {}

\* the text of an ld+json script: not JSON, a JSON array, or a JSON object
\* with its @type, headline, description, author, dates and image
JsonObject(type, headline, author, published, image) ==
    [json |-> "object", type |-> type, headline |-> headline, description |-> Missing,
     author |-> author, datePublished |-> published, dateModified |-> Missing,
     image |-> image]

Scripts ==
    {[json |-> "invalid"],
     [json |-> "array"],
     JsonObject("Organization", "jl-org", <<"missing">>, Missing, <<"missing">>),
     JsonObject("Article", "jl-title", <<"dict", "jl-author">>, "2024-01-01T00:00",
                <<"dict", "jl-image">>),
     JsonObject("NewsArticle", Missing, <<"missing">>, "soon", <<"str", "jl-image">>),
     JsonObject("BlogPosting", "jl-title", <<"str", "jl-author">>, Missing, <<"missing">>)}

\* meta tags with an og: property, as (property, content)
OgTags == {<<"og:title", "og-title">>, <<"og:title", "">>, <<"og:image", "og-image">>}

\* itemscope elements: the itemtype and the itemprop elements inside
MicrodataElements ==
    {[itemtype |-> "http://schema.org/Article",
      props |-> <<<<"headline", "md-title">>, <<"datePublished", "2024-03-03">>>>],
     [itemtype |-> "http://schema.org/Article", props |-> <<<<"headline", "">>>>],
     [itemtype |-> "http://schema.org/Person", props |-> <<<<"name", "md-name">>>>]}

\* the title, meta description and meta author tags
HtmlTags ==
    {[title |-> Missing, description |-> Missing, author |-> Missing],
     [title |-> "html-title", description |-> "html-description", author |-> Missing]}

\* property.replace('og:', '')
StripOg(property) ==
    CASE property = "og:title" -> "title"
      [] property = "og:image" -> "image"
      [] OTHER -> property

\* itemtype.split('/')[-1]
LastSegment(itemtype) ==
    CASE itemtype = "http://schema.org/Article" -> "Article"
      [] itemtype = "http://schema.org/Person" -> "Person"
      [] OTHER -> itemtype

\* date_parser.parse(text), None standing for a text it cannot read
DateParse(text) ==
    CASE text = "2024-01-01T00:00" -> "datetime(2024, 1, 1, 0, 0)"
      [] text = "2024-03-03" -> "datetime(2024, 3, 3, 0, 0)"
      [] OTHER -> "None"

\* json.loads of every script, those that are not JSON being skipped
RECURSIVE extract_json_ld(_)
extract_json_ld(scripts) ==
    IF scripts = <<>> THEN <<>>
    ELSE (IF Head(scripts).json = "invalid" THEN <<>> ELSE <<Head(scripts)>>)
         \o extract_json_ld(Tail(scripts))

\* the og: tags with a property name and a content, later tags overwriting
RECURSIVE extract_opengraph(_)
extract_opengraph(tags) ==
    IF tags = <<>> THEN EmptyDict
    ELSE LET tag == tags[Len(tags)]
             og_data == extract_opengraph(SubSeq(tags, 1, Len(tags) - 1))
         IN  IF StripOg(tag[1]) # "" /\ tag[2] # ""
             THEN DictPut(og_data, StripOg(tag[1]), tag[2])
             ELSE og_data

\* the itemprop elements with a name and a content
RECURSIVE MicrodataProps(_, _)
MicrodataProps(data, props) ==
    IF props = <<>> THEN data
    ELSE MicrodataProps(IF Head(props)[1] # "" /\ Head(props)[2] # ""
                        THEN DictPut(data, Head(props)[1], Head(props)[2])
                        ELSE data,
                        Tail(props))

\* the itemscope elements that have at least one property
RECURSIVE extract_microdata(_)
extract_microdata(elements) ==
    IF elements = <<>> THEN <<>>
    ELSE LET data == MicrodataProps(DictPut(EmptyDict, "@type",
                                            LastSegment(Head(elements).itemtype)),
                                    Head(elements).props)
         IN  (IF Cardinality(DOMAIN data) > 1 THEN <<data>> ELSE <<>>)
             \o extract_microdata(Tail(elements))

JsonLdTypes == {"Article", "NewsArticle", "BlogPosting"}
MicrodataTypes == {"Article", "NewsArticle"}

\* the position of the item the JSON-LD loop stops at: the first array
\* (on which item.get raises) or the first item of an article type; 0 if none
JsonLdStop(items) ==
    LET stops == {k \in 1..Len(items) :
                     items[k].json = "array" \/ items[k].type \in JsonLdTypes}
    IN  IF stops = {} THEN 0 ELSE CHOOSE k \in stops : \A j \in stops : k <= j

\* item.get(...) raises AttributeError: the item is an array, or its author
\* is not an object
JsonLdRaises(item) == item.json = "array" \/ item.author[1] = "str"

\* the metadata taken from a JSON-LD article
JsonLdMetadata(item) ==
    [title |-> JsonGet(item.headline, ""),
     description |-> JsonGet(item.description, ""),
     author |-> IF item.author[1] = "dict" THEN item.author[2] ELSE "",
     published |-> JsonGet(item.datePublished, ""),
     modified |-> JsonGet(item.dateModified, ""),
     image |-> IF item.image[1] = "missing" THEN "" ELSE item.image[2]]

\* the metadata taken from the OpenGraph tags
OgMetadata(og_data) ==
    [title |-> DictGet(og_data, "title", ""),
     description |-> DictGet(og_data, "description", ""),
     image |-> DictGet(og_data, "image", ""),
     published |-> DictGet(og_data, "article:published_time", ""),
     modified |-> DictGet(og_data, "article:modified_time", ""),
     author |-> DictGet(og_data, "article:author", "")]

\* the metadata taken from the first Microdata article, if there is one
MicrodataMetadata(items) ==
    LET found == {k \in 1..Len(items) : items[k]["@type"] \in MicrodataTypes}
    IN  IF found = {} THEN EmptyDict
        ELSE LET item == items[CHOOSE k \in found : \A j \in found : k <= j]
             IN  [title |-> DictGet(item, "headline", DictGet(item, "name", "")),
                  description |-> DictGet(item, "description", ""),
                  author |-> DictGet(item, "author", ""),
                  published |-> DictGet(item, "datePublished", ""),
                  image |-> DictGet(item, "image", "")]

\* the metadata taken from the title and the meta tags
HtmlMetadata(tags) ==
    [title |-> JsonGet(tags.title, ""),
     description |-> JsonGet(tags.description, ""),
     author |-> JsonGet(tags.author, ""),
     published |-> "",
     image |-> ""]

\* `if not metadata:` before each fallback
FallbackAlways(metadata, next) == next

Fallback(metadata, next) == IF IsEmpty(metadata) THEN next ELSE metadata

\* the date parsing at the end, on the keys the metadata has
ParseDates(metadata) ==
    [k \in DOMAIN metadata |->
        IF k \in {"published", "modified"} /\ metadata[k] # ""
        THEN DateParse(metadata[k])
        ELSE metadata[k]]

NoMetadata == [kind |-> "none", metadata |-> EmptyDict]

extract_article_metadata(html) ==
    LET json_ld_items == extract_json_ld(html.scripts)
        stop == JsonLdStop(json_ld_items)
    IN  IF stop # 0 /\ JsonLdRaises(json_ld_items[stop])
        THEN [kind |-> "raised", metadata |-> EmptyDict]
        ELSE LET from_json_ld == IF stop = 0 THEN EmptyDict
                                 ELSE JsonLdMetadata(json_ld_items[stop])
                 og_data == extract_opengraph(html.og_tags)
                 from_og == Fallback(from_json_ld,
                                     IF IsEmpty(og_data) THEN EmptyDict
                                     ELSE OgMetadata(og_data))
                 from_microdata ==
                     Fallback(from_og, MicrodataMetadata(extract_microdata(html.elements)))
                 metadata == Fallback(from_microdata, HtmlMetadata(html.tags))
             IN  [kind |-> "returned", metadata |-> ParseDates(metadata)]

\* a page without any markup, not parsed
IdleMetadata ==
    /\ page = [scripts |-> <<>>, og_tags |-> <<>>, elements |-> <<>>,
               tags |-> [title |-> Missing, description |-> Missing, author |-> Missing]]
    /\ article_metadata = NoMetadata

\* the page handed to parse
InitMetadata ==
    /\ page \in [scripts : SeqsUpTo(Scripts, MaxScripts),
                 og_tags : SeqsUpTo(OgTags, MaxTags),
                 elements : SeqsUpTo(MicrodataElements, MaxTags),
                 tags : HtmlTags]
    /\ article_metadata = NoMetadata

\* parse: metadata = extract_article_metadata(html)
ExtractMetadata ==
    /\ article_metadata = NoMetadata
    /\ article_metadata' = extract_article_metadata(page)
    /\ UNCHANGED page

----------------------------------------------------------------------------
(* link of the site scrapers (FierceScraper, PressReleaseScraper)           *)

\* self._extract_companies(text): the placeholder resolver finds nothing
extract_companies(text) == <<>>

\* self._extract_diseases(text)
extract_diseases(text) == <<>>

\* the ScraperResult normalize builds; the entity lists start empty
ScraperResult(scraper, title, summary, url, published_at) ==
    [content_type |-> IF scraper = "fierce" THEN "article" ELSE "press_release",
     data |-> [title |-> title, url |-> canonical_url(url), summary |-> summary,
               hash |-> ContentHash(ContentOf(url))],
     url |-> canonical_url(url),
     hash |-> ContentHash(ContentOf(url)),
     fingerprint |-> <<"simhash", ContentOf(url)>>,
     companies |-> <<>>, diseases |-> <<>>, catalysts |-> <<>>,
     published_at |-> published_at,
     scraped_at |-> 1]

Titles == {"", "Drug approved", "Trial halted"}
Summaries == {"", "Phase 3 data", "Company statement"}

\* link(result) of FierceScraper, dropping what normalize put into data
link_dropping_data(scraper, result) ==
    [result EXCEPT !.data = [title |-> "", url |-> result.url, summary |-> "",
                             hash |-> result.hash]]

\* link(result): FierceScraper assigns what the two extractors find in the
\* title and summary, PressReleaseScraper returns the result as it is
link(scraper, result) ==
    IF scraper = "fierce"
    THEN LET content == <<result.data.title, " ", result.data.summary>>
         IN  [result EXCEPT !.companies = extract_companies(content),
                            !.diseases = extract_diseases(content)]
    ELSE result

NotLinked == [kind |-> "none"]

\* a result of FierceScraper not yet handed to link
IdleEntity ==
    /\ normalized = [scraper |-> "fierce",
                     result |-> ScraperResult("fierce", "", "", ArticleA, NoDate)]
    /\ linked = NotLinked

\* the result normalize hands to link
InitEntity ==
    /\ normalized \in {[scraper |-> s, result |-> ScraperResult(s, t, m, u, p)] :
                          s \in {"fierce", "press"}, t \in Titles, m \in Summaries,
                          u \in RunUrls, p \in {NoDate, 3}}
    /\ linked = NotLinked

\* result = await self.link(result)
Link ==
    /\ linked = NotLinked
    /\ linked' = [kind |-> "returned", result |-> link(normalized.scraper, normalized.result)]
    /\ UNCHANGED normalized

----------------------------------------------------------------------------
(* Specifications *)

IdleBatch ==
    /\ burls = <<>>
    /\ bsize = 1
    /\ bpc = "idle"
    /\ bi = 0
    /\ bstat = <<>>
    /\ bresp = <<>>
    /\ bresults = <<>>

\* canonical_url not called yet on anything but a plain link
IdleCanon ==
    /\ curl = Url("https", "x.com", <<"/", "a">>, <<>>, "")
    /\ cfirst = canonical_url(curl)
    /\ ccanon = cfirst
    /\ cadded = 0

\* discover not called: the default arguments of run
IdleDiscover ==
    /\ dargs = [scraper |-> "fierce", has_rss_url |-> TRUE, method |-> "rss",
                since |-> NoSince, limit |-> NoLimit, urls |-> NoUrls, feed |-> <<>>]
    /\ dout = NoOutcome

\* the limiter, the client and the scraper as constructed
InitCore ==
    /\ InitLimiter /\ burst = <<>>
    /\ InitHttp
    /\ InitRun

\* the state after construction of the limiter, the client and the scraper
Init ==
    /\ InitCore /\ IdleBatch
    /\ IdleCanon /\ IdleDiscover /\ InitClusters /\ InitLink /\ IdleRegistry /\ IdleSimhash /\ IdleMetadata /\ IdleEntity /\ InitConfig /\ IdleFetch

\* the same, with the arguments of one batch_get call drawn
InitWithBatch ==
    /\ InitCore /\ InitBatch
    /\ IdleCanon /\ IdleDiscover /\ InitClusters /\ InitLink /\ IdleRegistry /\ IdleSimhash /\ IdleMetadata /\ IdleEntity /\ InitConfig /\ IdleFetch

\* the same, with the link given to canonical_url drawn
InitWithCanon ==
    /\ InitCore /\ IdleBatch
    /\ InitCanon /\ IdleDiscover /\ InitClusters /\ InitLink /\ IdleRegistry /\ IdleSimhash /\ IdleMetadata /\ IdleEntity /\ InitConfig /\ IdleFetch

\* the same, with the arguments of one discover call drawn
InitWithDiscover ==
    /\ InitCore /\ IdleBatch
    /\ IdleCanon /\ InitDiscover /\ InitClusters /\ InitLink /\ IdleRegistry /\ IdleSimhash /\ IdleMetadata /\ IdleEntity /\ InitConfig /\ IdleFetch

\* the same, with the registry file found at construction drawn
InitWithRegistry ==
    /\ InitCore /\ IdleBatch
    /\ IdleCanon /\ IdleDiscover /\ InitClusters /\ InitLink /\ InitRegistry /\ IdleSimhash /\ IdleMetadata /\ IdleEntity /\ InitConfig /\ IdleFetch



\* the same, with the fingerprints of one pairwise check drawn
InitWithSimhash ==
    /\ InitCore /\ IdleBatch
    /\ IdleCanon /\ IdleDiscover /\ InitClusters /\ InitLink /\ IdleRegistry /\ InitSimhash /\ IdleMetadata /\ IdleEntity /\ InitConfig /\ IdleFetch

\* the same, with the page handed to parse drawn
InitWithMetadata ==
    /\ InitCore /\ IdleBatch
    /\ IdleCanon /\ IdleDiscover /\ InitClusters /\ InitLink /\ IdleRegistry /\ IdleSimhash /\ InitMetadata /\ IdleEntity /\ InitConfig /\ IdleFetch

\* the same, with the result handed to link drawn
InitWithEntity ==
    /\ InitCore /\ IdleBatch
    /\ IdleCanon /\ IdleDiscover /\ InitClusters /\ InitLink /\ IdleRegistry /\ IdleSimhash /\ IdleMetadata /\ InitEntity /\ InitConfig /\ IdleFetch

\* the same, with the limiter built by a scraper from its max_rps
InitWithScraperLimiter ==
    /\ InitCore /\ IdleBatch
    /\ IdleCanon /\ IdleDiscover /\ InitClusters /\ InitLink /\ IdleRegistry /\ IdleSimhash /\ IdleMetadata /\ IdleEntity /\ InitScraperLimiter /\ IdleFetch

\* Each specification runs one component and leaves the others as built.
LimiterIdle == UNCHANGED limiterVars
HttpIdle == UNCHANGED httpVars
RunIdle == UNCHANGED runVars
CoreIdle == LimiterIdle /\ HttpIdle /\ RunIdle
ToolsIdle ==
    UNCHANGED <<canonVars, discoverVars, clusterVars, linkVars, registryVars,
                simhashVars,
                metadataVars,
                entityVars,
                configVars,
                fetchVars>>

NextLimiter ==
    \/ /\ \E t \in Tasks, u \in LimiterUrls, r \in ReqChoices, w \in MaxWaitChoices :
             acquire(t, u, r, w)
       /\ UNCHANGED burst /\ HttpIdle /\ RunIdle /\ ToolsIdle
    \/ /\ \E t \in Tasks : LockGranted(t)
       /\ UNCHANGED burst /\ HttpIdle /\ RunIdle /\ ToolsIdle
    \/ /\ \E t \in Tasks : WakeWait(t)
       /\ UNCHANGED burst /\ HttpIdle /\ RunIdle /\ ToolsIdle
    \/ /\ \E t \in Tasks : WakeJitter(t)
       /\ UNCHANGED burst /\ HttpIdle /\ RunIdle /\ ToolsIdle
    \/ /\ \E h \in Hosts, c \in SetRateChoices : set_rate(h, c[1], c[2])
       /\ UNCHANGED burst /\ HttpIdle /\ RunIdle /\ ToolsIdle
    \/ /\ \E h \in Hosts : reset(h)
       /\ UNCHANGED burst /\ HttpIdle /\ RunIdle /\ ToolsIdle
    \/ /\ reset_all
       /\ UNCHANGED burst /\ HttpIdle /\ RunIdle /\ ToolsIdle
    \/ /\ Tick(MaxTime)
       /\ UNCHANGED burst /\ HttpIdle /\ RunIdle /\ ToolsIdle

NextBurst ==
    \/ BurstCall /\ HttpIdle /\ RunIdle /\ ToolsIdle
    \/ BurstReturn /\ HttpIdle /\ RunIdle /\ ToolsIdle
    \/ BurstTick /\ HttpIdle /\ RunIdle /\ ToolsIdle

NextHttp ==
    \/ Get /\ LimiterIdle /\ RunIdle /\ ToolsIdle
    \/ GetResponse /\ LimiterIdle /\ RunIdle /\ ToolsIdle
    \/ GetRaise /\ LimiterIdle /\ RunIdle /\ ToolsIdle

NextBatch ==
    \/ batch_get /\ LimiterIdle /\ RunIdle /\ ToolsIdle
    \/ BatchGetStart /\ LimiterIdle /\ RunIdle /\ ToolsIdle
    \/ BatchGetResponse /\ LimiterIdle /\ RunIdle /\ ToolsIdle
    \/ BatchGetRaise /\ LimiterIdle /\ RunIdle /\ ToolsIdle
    \/ BatchCollect /\ LimiterIdle /\ RunIdle /\ ToolsIdle
    \/ BatchNext /\ LimiterIdle /\ RunIdle /\ ToolsIdle

NextRun ==
    \/ /\ \E d \in BOOLEAN, sv \in BOOLEAN : run(d, sv)
       /\ LimiterIdle /\ HttpIdle /\ ToolsIdle
    \/ /\ \E urls \in DistinctSeqs(RunUrls, MaxRunUrls) : Discover(urls)
       /\ LimiterIdle /\ HttpIdle /\ ToolsIdle
    \/ DiscoverRaise /\ LimiterIdle /\ HttpIdle /\ ToolsIdle
    \/ FetchAcquire /\ LimiterIdle /\ HttpIdle /\ ToolsIdle
    \/ /\ \E st \in GetOutcomes : FetchGet(st)
       /\ LimiterIdle /\ HttpIdle /\ ToolsIdle
    \/ ItemStepOk /\ LimiterIdle /\ HttpIdle /\ ToolsIdle
    \/ ItemStepRaise /\ LimiterIdle /\ HttpIdle /\ ToolsIdle

NextCanon ==
    \/ /\ \E p \in AddedParams, k \in 1..(MaxParams + 2) : CanonTracked(p, k)
       /\ CoreIdle /\ UNCHANGED <<discoverVars, clusterVars, linkVars, registryVars, simhashVars, metadataVars, entityVars, configVars, fetchVars>>
    \/ /\ \E j, k \in 1..(MaxParams + 2) : CanonReordered(j, k)
       /\ CoreIdle /\ UNCHANGED <<discoverVars, clusterVars, linkVars, registryVars, simhashVars, metadataVars, entityVars, configVars, fetchVars>>

NextDiscover ==
    \/ DiscoverCall /\ CoreIdle /\ UNCHANGED <<canonVars, clusterVars, linkVars, registryVars, simhashVars, metadataVars, entityVars, configVars, fetchVars>>

NextClusters ==
    \/ /\ \E id \in DocIds, text \in Texts : add(id, text)
       /\ CoreIdle /\ UNCHANGED <<canonVars, discoverVars, linkVars, registryVars, simhashVars, metadataVars, entityVars, configVars, fetchVars>>
    \/ GetClusters /\ CoreIdle /\ UNCHANGED <<canonVars, discoverVars, linkVars, registryVars, simhashVars, metadataVars, entityVars, configVars, fetchVars>>

NextLink ==
    \/ /\ \E c \in Callers, u \in LinkUrls, uc \in BOOLEAN : validate_link(c, u, uc)
       /\ CoreIdle /\ UNCHANGED <<canonVars, discoverVars, clusterVars, registryVars, simhashVars, metadataVars, entityVars, configVars, fetchVars>>
    \/ /\ \E c \in Callers, o \in HeadOutcomes : HeadDone(c, o)
       /\ CoreIdle /\ UNCHANGED <<canonVars, discoverVars, clusterVars, registryVars, simhashVars, metadataVars, entityVars, configVars, fetchVars>>
    \/ LinkTick /\ CoreIdle /\ UNCHANGED <<canonVars, discoverVars, clusterVars, registryVars, simhashVars, metadataVars, entityVars, configVars, fetchVars>>

NextRegistry ==
    \/ NewRegistry /\ CoreIdle /\ UNCHANGED <<canonVars, discoverVars, clusterVars, linkVars, simhashVars, metadataVars, entityVars, configVars, fetchVars>>

NextSimhash ==
    \/ NearDuplicateCheck /\ CoreIdle /\ UNCHANGED <<canonVars, discoverVars, clusterVars, linkVars, registryVars, metadataVars, entityVars, configVars, fetchVars>>

NextMetadata ==
    \/ ExtractMetadata /\ CoreIdle /\ UNCHANGED <<canonVars, discoverVars, clusterVars, linkVars, registryVars, simhashVars, entityVars, configVars, fetchVars>>

NextEntity ==
    \/ Link /\ CoreIdle /\ UNCHANGED <<canonVars, discoverVars, clusterVars, linkVars, registryVars, simhashVars, metadataVars, configVars, fetchVars>>

\* the frame of the fetch loops: everything but the limiter and the loops
FetchFrame ==
    /\ HttpIdle /\ RunIdle
    /\ UNCHANGED <<burst, canonVars, discoverVars, clusterVars, linkVars,
                 registryVars, simhashVars, metadataVars, entityVars, configVars>>

\* the steps the event loop takes on its own
FetchProgress ==
    \/ /\ \E t \in Tasks : LockGranted(t)
       /\ UNCHANGED fetchVars /\ FetchFrame
    \/ /\ \E t \in Tasks : WakeWait(t)
       /\ UNCHANGED fetchVars /\ FetchFrame
    \/ /\ \E t \in Tasks : FetchGranted(t)
       /\ FetchFrame
    \/ FetchTick /\ FetchFrame

NextFetch ==
    \/ /\ \E t \in Tasks, u \in LimiterUrls : FetchCall(t, u)
       /\ FetchFrame
    \/ FetchProgress

SpecLimiter == Init /\ [][NextLimiter]_vars

SpecBurst == Init /\ [][NextBurst]_vars

SpecHttp == Init /\ [][NextHttp]_vars

SpecBatch == InitWithBatch /\ [][NextBatch]_vars

SpecRun == Init /\ [][NextRun]_vars

SpecCanon == InitWithCanon /\ [][NextCanon]_vars

SpecDiscover == InitWithDiscover /\ [][NextDiscover]_vars

SpecClusters == Init /\ [][NextClusters]_vars

SpecLink == Init /\ [][NextLink]_vars

SpecRegistry == InitWithRegistry /\ [][NextRegistry]_vars

SpecFetch == InitWithScraperLimiter /\ [][NextFetch]_vars /\ WF_vars(FetchProgress)

SpecEntity == InitWithEntity /\ [][NextEntity]_vars

SpecMetadata == InitWithMetadata /\ [][NextMetadata]_vars

SpecSimhash == InitWithSimhash /\ [][NextSimhash]_vars

----------------------------------------------------------------------------
(* Claims about the rate limiter *)

\* the host named by the URL itself
NetlocOf(url) == url[1]

BucketOrNone(bs, h) == IF h \in DOMAIN bs THEN <<bs[h]>> ELSE <<>>

\* C1: on a full bucket of capacity 5 and rate 1 token/s, each of the first
\* five back-to-back acquire calls returns true at the instant it was made,
\* and the sixth returns true no sooner than one second after the first call.
C1_BurstWithoutBlocking ==
    \A i \in 1..Len(burst) :
        burst[i].ret # NoWait =>
            /\ burst[i].ok
            /\ i <= DefaultCapacity => burst[i].ret = burst[i].call
            /\ i = DefaultCapacity + 1 => burst[i].ret >= burst[1].call + TicksPerSec

\* C2: while a caller holds a host's lock, every step that changes that
\* host's bucket is a step of the lock holder itself.
C2_BucketSerialized ==
    [][\A h \in Hosts :
          (Holder(LockOf(h)) \in Tasks
             /\ BucketOrNone(buckets', h) # BucketOrNone(buckets, h))
          => tasks'[Holder(LockOf(h))] # tasks[Holder(LockOf(h))]]_vars

\* C3: a call acquire(url, maxWait = w) that has not obtained its tokens is
\* no longer pending once w has elapsed since the call was made.
C3_MaxWaitBounded ==
    \A t \in Tasks :
        (tasks[t].pc \in {"lock", "wait"} /\ tasks[t].max_wait # NoWait)
        => now - tasks[t].call_time <= tasks[t].max_wait

\* C4: a caller waiting for a lock waits only behind a caller on the same
\* host, and a step of an acquire for a URL leaves the bucket of every other
\* host unchanged.
C4_WaitsOnOwnHost ==
    \A t \in Tasks :
        tasks[t].pc = "lock" =>
            \E k \in Hosts :
                /\ \E i \in 1..Len(locks[k]) : locks[k][i] = t
                /\ NetlocOf(tasks[Head(locks[k])].url) = NetlocOf(tasks[t].url)

C4_OtherBucketsUnchanged ==
    \A t \in Tasks :
        (tasks'[t] # tasks[t] /\ (tasks[t].pc # "idle" \/ tasks'[t].pc # "idle")) =>
            LET u == IF tasks[t].pc = "idle" THEN tasks'[t].url ELSE tasks[t].url
            IN  \A h \in Hosts \ {NetlocOf(u)} :
                    BucketOrNone(buckets', h) = BucketOrNone(buckets, h)

C4_HostsIndependent == [](C4_WaitsOnOwnHost) /\ [][C4_OtherBucketsUnchanged]_vars

\* host a is exhausted and a caller waits for its refill, while a caller on
\* host b took its token after that wait began
C4_Witness ==
    \E t \in Tasks, u \in Tasks :
        /\ tasks[t].pc = "wait" /\ NetlocOf(tasks[t].url) = "a"
        /\ tasks[u].pc = "jitter" /\ NetlocOf(tasks[u].url) = "b"
        /\ tasks[u].start_time > tasks[t].start_time
        /\ tasks[u].start_time < tasks[t].wake_at
        /\ now > tasks[u].start_time

\* C22: in every reachable state, whatever acquire, set_rate and reset calls
\* were made, every host bucket holds at least zero tokens and at most its
\* capacity.
C22_TokensWithinCapacity ==
    \A h \in DOMAIN buckets :
        /\ 0 <= buckets[h].tokens
        /\ buckets[h].tokens <= buckets[h].capacity * Milli

\* a bucket whose capacity set_rate lowered, refilled after the start and
\* drawn on by acquire since
C22_Witness ==
    \E h \in DOMAIN buckets :
        /\ adminOps > 0
        /\ buckets[h].capacity < DefaultCapacity
        /\ buckets[h].last_refill > 0
        /\ buckets[h].tokens < buckets[h].capacity * Milli

----------------------------------------------------------------------------
(* Claims about the HTTP client *)

\* C5: a get(url, use_cache = True) that does not bring its own
\* If-None-Match sends If-None-Match equal to the ETag of the most recent
\* ETag-bearing response for that same URL, and none when there was none.
C5_SendsLatestETag ==
    [][\A r \in inflight' \ inflight :
          (r.use_cache /\ r.headers.inm = Absent) => r.sent.inm = lastEtag[r.url]]_vars

\* a get is in flight with the ETag of its URL while the other URL's latest
\* ETag is a different one
C5_Witness ==
    \E r \in inflight, u \in HttpUrls :
        /\ r.use_cache /\ r.headers.inm = Absent
        /\ u # r.url
        /\ r.sent.inm \in ETags
        /\ r.sent.inm = lastEtag[r.url]
        /\ lastEtag[u] \in ETags /\ lastEtag[u] # r.sent.inm

\* the batch (counted from 1) of the URL at index k
BatchNo(k) == ((k - 1) \div bsize) + 1

\* C6: a get of a later batch is not started, nor handed to gather, before
\* every get of the earlier batches has settled, and at most batch_size gets
\* are in flight.
C6_BatchesSequential ==
    /\ Cardinality({k \in 1..Len(burls) : bstat[k] \in {"scheduled", "inflight"}}) <= bsize
    /\ \A j, k \in 1..Len(burls) :
          (BatchNo(j) < BatchNo(k) /\ bstat[k] # "new") => bstat[j] \in Settled

\* the second batch is in flight after a first batch of two gets settled
C6_Witness ==
    /\ bsize = 2 /\ Len(burls) = 3
    /\ bstat[1] \in Settled /\ bstat[2] \in Settled
    /\ bstat[3] = "inflight"

\* the positions of urls whose get returned a response
Succeeded == {k \in 1..Len(burls) : bstat[k] = "ok"}

\* the position in urls of the i-th get that returned a response
NthSucceeded(i) == CHOOSE k \in Succeeded : Cardinality({j \in Succeeded : j <= k}) = i

\* C23: batch_get returns, whichever gets raised: what it returns is exactly
\* the responses of the gets that succeeded, each with the URL it was
\* requested for, in the order in which the URLs were submitted.
C23_BatchReturnsSuccessesInOrder ==
    /\ bpc = "done" =>
          /\ Len(bresults) = Cardinality(Succeeded)
          /\ \A i \in 1..Len(bresults) :
                /\ bresults[i] = bresp[NthSucceeded(i)]
                /\ bresults[i].url = burls[NthSucceeded(i)]
    /\ (bpc = "gather" /\ GatherDone(BatchIndices(bi, bsize, Len(burls)), bstat))
          => ENABLED BatchCollect

\* a call over three different URLs in batches of two has returned, with the
\* second get having raised
C23_Witness ==
    /\ bpc = "done"
    /\ Len(burls) = 3 /\ bsize = 2
    /\ burls[1] # burls[3]
    /\ bstat = <<"ok", "exc", "ok">>
    /\ Len(bresults) = 2

\* caller c makes a call in this step
Calls(c) == vcalls[c].pc # "head" /\ vcalls'[c] # vcalls[c]

\* the entry of url is younger than seven days
YoungerThanSevenDays(url) == url \in DOMAIN link_cache /\ lnow - link_cache[url].cached_at < 7

\* C18: a validate_link(url, use_cache=True) call made while the entry of url
\* is younger than 7 days returns the cached boolean and sends no HEAD
\* request; made when the entry is 7 days old or older it sends one, and
\* when that request is over the entry holds its result and the current
\* time.
C18_CalledWithCache ==
    \A c \in Callers :
        (Calls(c) /\ vcalls'[c].use_cache) =>
            IF YoungerThanSevenDays(vcalls'[c].url)
            THEN /\ vcalls'[c].pc = "returned"
                 /\ vcalls'[c].result = link_cache[vcalls'[c].url].valid
                 /\ heads' = heads
                 /\ link_cache' = link_cache
            ELSE vcalls'[c].pc = "head" /\ heads' = heads + 1

C18_HeadResultStored ==
    \A c \in Callers :
        (vcalls[c].pc = "head" /\ vcalls'[c].pc = "returned") =>
            link_cache'[vcalls[c].url] = [valid |-> vcalls'[c].result, cached_at |-> lnow]

C18_LinkCacheTtl == [][C18_CalledWithCache /\ C18_HeadResultStored]_vars

\* an entry exactly seven days old was re-validated: the HEAD request is out
C18_Witness ==
    /\ vcalls["c1"].pc = "head" /\ vcalls["c1"].use_cache
    /\ vcalls["c1"].url \in DOMAIN link_cache
    /\ lnow - link_cache[vcalls["c1"].url].cached_at = 7
    /\ heads = 2

\* the HEAD request of caller c comes back in this step
HeadReturns(c) == vcalls[c].pc = "head" /\ vcalls'[c] # vcalls[c]

\* the entry of url holds False and is younger than seven days
CachedInvalid(url) == YoungerThanSevenDays(url) /\ ~link_cache[url].valid

\* C30: validate_link returns whatever the HEAD request does: when it fails
\* with an exception the call returns False and the cache holds False for
\* the URL with the current time, and a validate_link(url, use_cache=True)
\* call made within 7 days of that returns False without a HEAD request.
C30_FailedHeadCachedFalse ==
    [][\A c \in Callers :
          /\ HeadReturns(c) => vcalls'[c].pc = "returned"
          /\ (HeadReturns(c) /\ head_raised') =>
                /\ vcalls'[c].result = FALSE
                /\ link_cache'[vcalls[c].url] = [valid |-> FALSE, cached_at |-> lnow]
          /\ (Calls(c) /\ vcalls'[c].use_cache /\ CachedInvalid(vcalls'[c].url)) =>
                /\ vcalls'[c].pc = "returned"
                /\ vcalls'[c].result = FALSE
                /\ heads' = heads]_vars

\* the only HEAD request made failed, and days later another caller got
\* False for the same URL from the cache
C30_Witness ==
    \E c, d \in Callers :
        /\ c # d
        /\ head_raised
        /\ heads = 1
        /\ vcalls[d].pc = "returned" /\ vcalls[d].use_cache /\ ~vcalls[d].result
        /\ vcalls[d].url = vcalls[c].url
        /\ vcalls[d].url \in DOMAIN link_cache
        /\ lnow - link_cache[vcalls[d].url].cached_at = 6

----------------------------------------------------------------------------
(* Claims about run *)

ItemEvents == {"parse", "normalize", "link", "save", "upsert"}

\* the steps run so far for the item at index i of raw_contents, in order
RECURSIVE StepsOf(_, _)
StepsOf(tr, i) ==
    IF tr = <<>> THEN <<>>
    ELSE (IF Head(tr).ev \in ItemEvents /\ Head(tr).item = i THEN <<Head(tr).ev>> ELSE <<>>)
         \o StepsOf(Tail(tr), i)

FullChain(save) ==
    IF save THEN <<"parse", "normalize", "link", "save", "upsert">>
    ELSE <<"parse", "normalize", "link", "upsert">>

IsPrefix(p, q) == Len(p) <= Len(q) /\ \A k \in 1..Len(p) : p[k] = q[k]

\* item i was upserted successfully
Upserted(i) == \E k \in 1..Len(trace) :
                   trace[k].ev = "upsert" /\ trace[k].item = i /\ trace[k].ok

\* some step of item i raised
Failed(i) == \E k \in 1..Len(trace) :
                 trace[k].ev \in ItemEvents /\ trace[k].item = i /\ ~trace[k].ok

\* C7: discover is the first step and happens once, every fetch step comes
\* before every item step, the steps of an item are a prefix of parse,
\* normalize, link, [save,] upsert, and an upserted item went through exactly
\* that chain.
C7_StepOrder ==
    /\ \A k \in 1..Len(trace) : trace[k].ev = "discover" <=> k = 1
    /\ \A j, k \in 1..Len(trace) :
          (trace[j].ev \in ItemEvents /\ trace[k].ev \in {"acquire", "get"}) => k < j
    /\ \A i \in 1..Len(raw_contents) :
          /\ IsPrefix(StepsOf(trace, i), FullChain(save_fixture))
          /\ Upserted(i) => StepsOf(trace, i) = FullChain(save_fixture)
    /\ \A j, k \in 1..Len(trace) :
          (j < k /\ trace[j].ev \in ItemEvents /\ trace[k].ev \in ItemEvents)
          => trace[j].item <= trace[k].item

\* a run with fixture saving upserted its second item
C7_Witness ==
    /\ rpc = "done" /\ save_fixture
    /\ Len(raw_contents) >= 2
    /\ Upserted(2)
    /\ Failed(1)

\* C8: a run in which an upsert failed does not return normally.
C8_UpsertFailureSurfaced ==
    (rpc = "done" /\ \E k \in 1..Len(trace) : trace[k].ev = "upsert" /\ ~trace[k].ok)
    => routcome = "raised"

\* the fetched items none of whose steps raised, in fetch order
RECURSIVE Survivors(_)
Survivors(i) ==
    IF i > Len(raw_contents) THEN <<>>
    ELSE (IF Failed(i) THEN <<>> ELSE <<canonical_url(raw_contents[i])>>)
         \o Survivors(i + 1)

ResultUrls == [k \in 1..Len(results) |-> results[k].url]

\* C9: once something was fetched run returns normally, every fetched item
\* was processed, and the results are those of the items no step of which
\* raised, in fetch order.
C9_ItemFailuresIsolated ==
    (rpc = "done" /\ raw_contents # <<>>) =>
        /\ routcome = "returned"
        /\ \A i \in 1..Len(raw_contents) : StepsOf(trace, i) # <<>>
        /\ ResultUrls = Survivors(1)

\* the first of three items failed in normalize and the other two came out
C9_Witness ==
    /\ rpc = "done" /\ Len(raw_contents) = 3
    /\ \E k \in 1..Len(trace) :
          trace[k].ev = "normalize" /\ trace[k].item = 1 /\ ~trace[k].ok
    /\ Len(results) = 2

AllOk == \A k \in 1..Len(trace) : trace[k].ok

\* C10: a dry run in which every step succeeds returns one result per
\* discovered URL and leaves the store as it was; without save_fixture it
\* writes no file either.
C10_DryRun ==
    (rpc = "done" /\ dry_run /\ AllOk) =>
        /\ routcome = "returned"
        /\ Len(results) = Len(rurls)
        /\ store = {}
        /\ ~save_fixture => fixtures = {}

\* a dry run over three items that all succeeded
C10_Witness ==
    /\ rpc = "done" /\ dry_run /\ ~save_fixture /\ AllOk
    /\ Len(rurls) = 3
    /\ Len(results) = 3

\* the items of raw_contents whose normalize step returned
NormalizedItems ==
    {i \in 1..Len(raw_contents) :
        \E k \in 1..Len(trace) :
            trace[k].ev = "normalize" /\ trace[k].item = i /\ trace[k].ok}

\* C11: after a run with save_fixture in which no step raised, there are as
\* many distinct fixture files as items whose normalize step succeeded.
C11_OneFixturePerItem ==
    (rpc = "done" /\ save_fixture /\ AllOk) =>
        Cardinality(fixtures) = Cardinality(NormalizedItems)

\* C12: a URL whose get raised or came back with a status outside 200..299
\* is dropped by fetch: no step of the loop body (parse ... upsert) runs for
\* it, so it yields no result and no upsert call.
C12_FailedFetchDropped ==
    \A k \in 1..Len(fetch_status) :
        fetch_status[k] \notin 200..299 =>
            \A j \in 1..Len(raw_contents) :
                raw_contents[j] = rurls[k] => StepsOf(trace, j) = <<>>

\* C13: every get follows at once a successful acquire made for the same
\* URL, and no entry of the URL list is requested twice.
C13_AcquireThenGetOnce ==
    /\ \A k \in 1..Len(trace) :
          trace[k].ev = "get" =>
              /\ k > 1
              /\ trace[k - 1].ev = "acquire"
              /\ trace[k - 1].item = trace[k].item
              /\ trace[k - 1].ok
    /\ \A j, k \in 1..Len(trace) :
          (j < k /\ trace[j].ev = "get" /\ trace[k].ev = "get")
          => trace[j].item # trace[k].item

\* the get of the first of two URLs raised, the second was fetched, and the
\* run is over
C13_Witness ==
    /\ rpc = "done" /\ Len(rurls) = 2
    /\ fetch_status = <<Raised, 200>>
    /\ Len(raw_contents) = 1

\* C14: discover(method="url", urls=L) returns L itself, for every list L,
\* and queries no feed.
C14_UrlMethodVerbatim ==
    (dout # NoOutcome /\ dargs.method = "url" /\ dargs.urls.given) =>
        /\ dout.kind = "returned"
        /\ dout.urls = dargs.urls.list
        /\ ~dout.queried

\* links to the article at /a that differ only by a tracking parameter
LinksToArticleA == {ArticleA, ArticleAUtmId}

\* C16: a run (not dry, no step failing) over two or more links to one
\* article that differ only by a tracking parameter gives results with one
\* url and one hash, and the store keyed by hash holds a single item.
C16_TrackedLinksOneItem ==
    (/\ rpc = "done" /\ ~dry_run /\ AllOk
     /\ Len(rurls) >= 2
     /\ \A k \in 1..Len(rurls) : rurls[k] \in LinksToArticleA) =>
        /\ \A j, k \in 1..Len(results) :
              results[j].url = results[k].url /\ results[j].hash = results[k].hash
        /\ Cardinality(store) = 1

----------------------------------------------------------------------------
(* Claims about the Deduplicator *)

\* C15: a link that picked up tracking parameters (utm_*, fbclid, ...) or
\* whose query parameters were reordered has the canonical URL it had
\* before.
C15_TrackingAndOrderIgnored == ccanon = cfirst

\* the documents a chain of at most n matches leads to from id
RECURSIVE Chain(_, _, _)
Chain(mh, ids, n) ==
    IF n = 0 THEN ids
    ELSE Chain(mh, ids \cup UNION {query_by_id(mh, d) : d \in ids}, n - 1)

\* the clusters as of the last get_clusters call are those of the index
ClustersCurrent == clusters = get_clusters(minhashes)

\* C17: the clusters returned are the connected components of the match
\* relation: every indexed id is in exactly one cluster, and the cluster of
\* an id is the set of ids a chain of matches connects it to.
C17_ClustersAreComponents ==
    (ClustersCurrent /\ minhashes # <<>>) =>
        \A id \in IndexedIds(minhashes) :
            /\ Cardinality({k \in 1..Len(clusters) : id \in clusters[k]}) = 1
            /\ \A k \in 1..Len(clusters) :
                  id \in clusters[k] => clusters[k] = Chain(minhashes, {id}, MaxDocs)

----------------------------------------------------------------------------
(* Claims about the registry *)

SourceKeys == {"fierce_biotech", "fda", "unknown_source"}

\* the entries of a registry file, each with the category it is listed under
Listed(file) ==
    UNION {{<<file.scrapers[i].category, file.scrapers[i].entries[j]>> :
               j \in 1..Len(file.scrapers[i].entries)} :
              i \in 1..Len(file.scrapers)}

TotalListed(file) ==
    LET n[k \in 0..Len(file.scrapers)] ==
            IF k = 0 THEN 0 ELSE n[k - 1] + Len(file.scrapers[k].entries)
    IN  n[Len(file.scrapers)]

\* source keys are unique in the file
UniqueKeys(file) ==
    Cardinality({e[2].source_key : e \in Listed(file)}) = TotalListed(file)

\* C19: constructing the registry without a registry file does not fail,
\* leaves a file with no source in it, and gives a registry without sources.
C19_AbsentFileBootstraps ==
    (regstate # "new" /\ ~regfile0.present) =>
        /\ regstate = "loaded"
        /\ regfile.present
        /\ \A i \in 1..Len(regfile.scrapers) : regfile.scrapers[i].entries = <<>>
        /\ list_sources(scrapers) = <<>>
        /\ get_enabled(scrapers) = <<>>
        /\ \A k \in SourceKeys : get_scraper(scrapers, k) = {}

\* the registry was constructed where no file was
C19_Witness ==
    /\ regstate = "loaded" /\ ~regfile0.present
    /\ regfile.present

\* C20: after loading a file whose source keys are unique, get_scraper(k)
\* is the configuration listed for k (key, name, base URL, category, enabled
\* unless set to false) and nothing for a key not listed, get_by_category(c)
\* holds exactly the sources listed under c, and list_sources holds every
\* listed key once and nothing else.
C20_LoadedAsConfigured ==
    (regstate = "loaded" /\ regfile0.present /\ UniqueKeys(regfile0)) =>
        /\ \A e \in Listed(regfile0) :
              get_scraper(scrapers, e[2].source_key) =
                  {[source_key |-> e[2].source_key, name |-> e[2].name,
                    category |-> e[1], base_url |-> e[2].base_url,
                    enabled |-> e[2].enabled # "false"]}
        /\ \A k \in SourceKeys :
              (\A e \in Listed(regfile0) : e[2].source_key # k)
              => get_scraper(scrapers, k) = {}
        /\ \A i \in 1..Len(CategoryOrder) :
              LET c == CategoryOrder[i]
                  got == get_by_category(scrapers, c)
              IN  /\ {got[k].source_key : k \in 1..Len(got)} =
                         {e[2].source_key : e \in {x \in Listed(regfile0) : x[1] = c}}
                  /\ Len(got) = Cardinality({x \in Listed(regfile0) : x[1] = c})
        /\ \A k \in SourceKeys :
              Cardinality({i \in 1..Len(scrapers) : list_sources(scrapers)[i] = k}) =
                  (IF \E e \in Listed(regfile0) : e[2].source_key = k THEN 1 ELSE 0)

\* a file with one source under regulators and then another under
\* news_press was loaded
C20_Witness ==
    /\ regstate = "loaded" /\ regfile0.present /\ UniqueKeys(regfile0)
    /\ regfile0.scrapers[1].category = "regulators"
    /\ Len(regfile0.scrapers[1].entries) = 1
    /\ Len(regfile0.scrapers[2].entries) = 1
    /\ Len(scrapers) = 2

----------------------------------------------------------------------------
(* Claims about the fingerprint comparison *)

\* bit i of the fingerprint, read off its hex characters from the right
BitOf(fp, i) ==
    IF i \div 4 >= Len(fp) THEN 0
    ELSE (HexVal[fp[Len(fp) - (i \div 4)]] \div (2 ^ (i % 4))) % 2

\* the number of bit positions in which two fingerprints differ
Hamming(fp1, fp2) ==
    Cardinality({i \in 0..(4 * (IF Len(fp1) > Len(fp2) THEN Len(fp1) ELSE Len(fp2)) - 1) :
                    BitOf(fp1, i) # BitOf(fp2, i)})

\* C21: is_near_duplicate(fp1, fp2, t) is true exactly when the Hamming
\* distance of the two fingerprints is at most t; a fingerprint is a near
\* duplicate of itself, and the answer is the same both ways round.
C21_NearDuplicateIsHamming ==
    near.called =>
        /\ near.forward = (Hamming(dfp1, dfp2) <= dthreshold)
        /\ near.self
        /\ near.backward = near.forward

\* two different fingerprints of different lengths exactly at the threshold
C21_Witness ==
    /\ near.called
    /\ Len(dfp1) # Len(dfp2)
    /\ dthreshold > 0
    /\ Hamming(dfp1, dfp2) = dthreshold
    /\ near.forward

----------------------------------------------------------------------------
(* Claims about discover *)

\* the entries of the feed that were not published before since
NotBefore(feed, since) ==
    {k \in 1..Len(feed) :
        since = NoSince \/ feed[k].published = NoDate \/ feed[k].published >= since}

\* C24: for a method other than "url", discover returns links of feed
\* entries not published before since only, and at most limit of them
\* whenever a limit is given, a limit of 0 included.
C24_SinceAndLimit ==
    (dout.kind = "returned" /\ dargs.method # "url") =>
        /\ \A i \in 1..Len(dout.urls) :
              \E k \in NotBefore(dargs.feed, dargs.since) :
                  dout.urls[i] = canonical_url(dargs.feed[k].link)
        /\ dargs.limit # NoLimit => Len(dout.urls) <= dargs.limit

----------------------------------------------------------------------------
(* Claims about parse *)

\* the markup each text of the pages is written in
SourceOf(text) ==
    CASE text \in {"jl-title", "jl-author", "jl-image", "jl-org",
                   "datetime(2024, 1, 1, 0, 0)", "None"} -> "json-ld"
      [] text \in {"og-title", "og-image"} -> "opengraph"
      [] text \in {"md-title", "md-name", "datetime(2024, 3, 3, 0, 0)"} -> "microdata"
      [] text \in {"html-title", "html-description"} -> "html"
      [] OTHER -> "nowhere"

\* the page has a JSON-LD object of an article type
JsonLdYields ==
    \E k \in 1..Len(page.scripts) :
        /\ page.scripts[k].json = "object"
        /\ page.scripts[k].type \in {"Article", "NewsArticle", "BlogPosting"}

\* the page has an OpenGraph tag with a content
OgYields == \E k \in 1..Len(page.og_tags) : page.og_tags[k][2] # ""

\* the page has a Microdata article with a property
MicrodataYields ==
    \E k \in 1..Len(page.elements) :
        /\ page.elements[k].itemtype = "http://schema.org/Article"
        /\ \E p \in 1..Len(page.elements[k].props) : page.elements[k].props[p][2] # ""

\* the highest-priority source of the page that yields something
TopSource ==
    IF JsonLdYields THEN "json-ld"
    ELSE IF OgYields THEN "opengraph"
    ELSE IF MicrodataYields THEN "microdata"
    ELSE "html"

\* C25: the metadata parse returns is taken from one source only, the
\* first of JSON-LD article, OpenGraph, Microdata and title/meta tags that
\* yields something: nothing in it comes from another source.
C25_OneSourceByPriority ==
    article_metadata.kind = "returned" =>
        \A k \in DOMAIN article_metadata.metadata :
            article_metadata.metadata[k] # "" =>
                SourceOf(article_metadata.metadata[k]) = TopSource

\* a page whose JSON-LD holds no article, with OpenGraph, Microdata and
\* title tags that all yield a title: the OpenGraph title is returned
C25_Witness ==
    /\ article_metadata.kind = "returned"
    /\ Len(page.scripts) > 0
    /\ TopSource = "opengraph"
    /\ MicrodataYields
    /\ page.tags.title # Missing
    /\ article_metadata.metadata["title"] = "og-title"

----------------------------------------------------------------------------
(* Claims about link *)

\* C26: link leaves url, hash, fingerprint, content type, data and the
\* timestamps of the result as they were, and with a resolver that finds no
\* match it returns the result with empty companies, diseases and catalysts.
C26_LinkFrame ==
    linked.kind = "returned" =>
        /\ linked.result.url = normalized.result.url
        /\ linked.result.hash = normalized.result.hash
        /\ linked.result.fingerprint = normalized.result.fingerprint
        /\ linked.result.content_type = normalized.result.content_type
        /\ linked.result.data = normalized.result.data
        /\ linked.result.published_at = normalized.result.published_at
        /\ linked.result.scraped_at = normalized.result.scraped_at
        /\ linked.result.companies = <<>>
        /\ linked.result.diseases = <<>>
        /\ linked.result.catalysts = <<>>

\* FierceScraper has linked an article with a title and a summary
C26_Witness ==
    /\ linked.kind = "returned"
    /\ normalized.scraper = "fierce"
    /\ normalized.result.data.title = "Drug approved"
    /\ normalized.result.data.summary = "Phase 3 data"
    /\ linked.result.companies = <<>>

----------------------------------------------------------------------------
(* Claims about the letter case of canonical URLs *)

Elements(s) == {s[k] : k \in 1..Len(s)}

\* C27: canonical_url changes letter case in the scheme and the host only:
\* every path segment and every query parameter of the result is one of the
\* link it was given, in the letter case it had there.
C27_CaseKeptOutsideHost ==
    /\ Elements(ccanon.path) \subseteq Elements(curl.path)
    /\ Elements(ccanon.query) \subseteq Elements(curl.query)

----------------------------------------------------------------------------
(* Claims about the limiter under the fetch loops *)

\* the calls for host h that returned True from the i-th to the j-th return
GrantedBetween(h, i, j) == {k \in i..j : granted[k].host = h}

\* C28: for a host bucket of capacity C and rate r that is never
\* reconfigured, any window of length T holds at most C + r * T returns of
\* True for that host (here: the window from one such return to a later one,
\* in Milli tokens times ticks).
C28_WindowBound ==
    \A i, j \in 1..Len(granted) :
        (i <= j /\ granted[i].host = granted[j].host) =>
            Cardinality(GrantedBetween(granted[i].host, i, j)) * Milli * TicksPerSec
                <= default_capacity * Milli * TicksPerSec
                   + default_rate * (granted[j].at - granted[i].at)

\* C29: on every limiter a scraper can build (rate = max_rps > 0, capacity =
\* int(max_rps * 10)), every acquire(url) call made without max_wait
\* eventually returns True.
C29_AcquireReturnsTrue ==
    \A t \in Tasks :
        (tasks[t].pc # "idle") ~> (tasks[t].pc = "idle" /\ tasks[t].result = "true")

====
